---- MODULE Spec2Model ----
(***************************************************************************)
(* Model of src/cpp_extensions/automation_core.cpp: the thread-safe        *)
(* logger, parallel_template_match (matchOne), multi_template_match        *)
(* (matchMany), detect_health_parallel (analyzeHealth) and                 *)
(* cpp_batch_process_screenshots (processBatch).                           *)
(*                                                                         *)
(* Real numbers are kept as integers in hundredths (0.7 is 70); a health   *)
(* percentage is kept as the exact quotient <<red_pixels, total_pixels>>.  *)
(* Threads are numbered: 0 is the calling thread, 1..MaxMatchers are the   *)
(* std::async tasks that run parallel_template_match, and the threads      *)
(* above them are the per-screenshot tasks of the batch.                   *)
(***************************************************************************)
EXTENDS Integers, Sequences, FiniteSets, TLC

\* ------------------------------------------------------------------ bounds
MaxDim == 2          \* rows and cols of a cv::Mat range over 0..MaxDim
MaxTemplates == 2    \* longest template / threshold vector of matchMany
MaxBatch == 2        \* longest screenshot list of processBatch
MaxElapsed == 0      \* measured durations range over 0..MaxElapsed

\* ------------------------------------------------------------- thread ids
\* A batch starts two matchers per screenshot: 2i-1 and 2i for list index i.
MainThread == 0
MaxMatchers == IF MaxTemplates >= 2 * MaxBatch THEN MaxTemplates ELSE 2 * MaxBatch
Matchers == 1..MaxMatchers
ItemThread(i) == MaxMatchers + i
ItemThreads == {ItemThread(i) : i \in 1..MaxBatch}
Threads == {MainThread} \cup Matchers \cup ItemThreads

Free == -1           \* log_mutex is not held

\* ------------------------------------------------------------ cv::Mat
Mats == [rows : 0..MaxDim, cols : 0..MaxDim]
Mat(r, c) == [rows |-> r, cols |-> c]
\* cv::Mat::empty(): no element
MatEmpty(m) == m.rows = 0 \/ m.cols = 0

Point(x, y) == <<x, y>>
Origin == Point(0, 0)

\* ------------------------------------------------- scores and thresholds
\* Correlation scores and thresholds, in hundredths.
Scores == {-100, 0, 70, 100}
Thresholds == {-50, 0, 70}
Locs == {Point(0, 0), Point(1, 0)}

\* What the external primitives do for one (image, template) pair:
\* cv::matchTemplate raises, cv::minMaxLoc raises, or they yield the maximum
\* of the score surface and its position.
\* ms is the duration the clock of lines 95 and 133 measures for the call.
OkOutcomes == [kind : {"ok"}, val : Scores, loc : Locs, ms : 0..MaxElapsed]
RaiseOutcomes ==
    [kind : {"matchTemplate_raise", "minMaxLoc_raise"}, val : {0}, loc : {Origin},
     ms : 0..MaxElapsed]
Outcomes == OkOutcomes \cup RaiseOutcomes
\* The oracle of a matcher whose primitives are never consulted.
NoOutcome == [kind |-> "matchTemplate_raise", val |-> 0, loc |-> Origin, ms |-> 0]

\* struct MatchResult
MatchResult(mv, ml, conf, f, id, ms) ==
    [max_val |-> mv, max_loc |-> ml, confidence |-> conf, found |-> f,
     template_id |-> id, processing_time_ms |-> ms]

\* processing_time_ms before line 135 assigns it: MatchResult has no
\* initialiser, so the field holds whatever the stack held.
Indeterminate == -1..MaxElapsed

NoTask == [image |-> Mat(0, 0), templ |-> Mat(0, 0), threshold |-> 0, template_id |-> 0]
NoResult == MatchResult(0, Origin, 0, FALSE, 0, 0)
NoLog == [msg |-> "", ret |-> ""]

\* struct HealthResult; health_percentage is the quotient <<numerator, denominator>>.
HealthResult(hp, e, c, ms, loc, f) ==
    [health_percentage |-> hp, is_empty |-> e, is_critical |-> c,
     processing_time_ms |-> ms, health_location |-> loc, health_bar_found |-> f]

\* 0.0
Zero == <<0, 1>>

\* Lines 179-185: the initial result.
NoHealth == HealthResult(Zero, FALSE, FALSE, 0, Origin, FALSE)

\* A PyObject* a per-screenshot task returns: the summary dict of lines
\* 479-485, NULL, or Py_None.
Summary(hf, hc, rf, rc) ==
    [py |-> "dict", health_found |-> hf, health_confidence |-> hc,
     respawn_found |-> rf, respawn_confidence |-> rc]
PyNull == [py |-> "NULL", health_found |-> FALSE, health_confidence |-> 0,
           respawn_found |-> FALSE, respawn_confidence |-> 0]
Py_None == [py |-> "None", health_found |-> FALSE, health_confidence |-> 0,
            respawn_found |-> FALSE, respawn_confidence |-> 0]
\* No value yet.
NoObject == [py |-> "", health_found |-> FALSE, health_confidence |-> 0,
             respawn_found |-> FALSE, respawn_confidence |-> 0]

\* The colour primitives (cv::cvtColor, cv::inRange, cv::countNonZero) on the
\* screenshot: one of them raises, or the mask selects the pixels of the
\* columns left of fill (the filled part of a health bar).
NoColor == [kind |-> "ok", fill |-> 0]

VARIABLES
    pc,         \* pc[th]: where thread th stands
    lg,         \* lg[th]: the thread_safe_log call thread th is in (message, return pc)
    log_mutex,  \* holder of log_mutex, or Free
    log,        \* lines printed to stdout: <<thread, message>>
    task,       \* task[t]: arguments of matcher t's parallel_template_match call
    res,        \* res[t]: matcher t's local MatchResult result
    calls,      \* calls[t]: times matcher t invoked cv::matchTemplate
    oracle,     \* oracle[t]: what the primitives do on matcher t's image and template
    inp,        \* arguments of the call the main thread makes
    futures,    \* std::vector<std::future<MatchResult>>: matcher ids, in push order
    results,    \* std::vector<MatchResult> results of multi_template_match
    ret,        \* how the call ended: "" while running
    hres,       \* HealthResult result of detect_health_parallel
    color,      \* what the colour primitives do on the screenshot
    ccalls,     \* times detect_health_parallel invoked cv::cvtColor
    gil,        \* holder of the interpreter lock, or Free
    pyerr,      \* the Python error indicator: "" when clear
    bi,         \* loop index i of the dispatch loop (0-based)
    bj,         \* position of the collection loop in futures (0-based)
    exc,        \* what() of the exception in flight in the main thread
    iret        \* iret[i]: what the task of list index i returned

\* The state only detect_health_parallel touches.
healthVars == <<hres, color, ccalls>>

\* The state only cpp_batch_process_screenshots touches.
batchVars == <<gil, pyerr, bi, bj, exc, iret>>

vars == <<pc, lg, log_mutex, log, task, res, calls, oracle, inp, futures, results, ret,
          healthVars, batchVars>>

\* ------------------------------------------------------- thread_safe_log
\* A call of thread_safe_log(msg) by thread th, which continues at r.
CallLog(th, msg, r) ==
    /\ pc' = [pc EXCEPT ![th] = "log_lock"]
    /\ lg' = [lg EXCEPT ![th] = [msg |-> msg, ret |-> r]]

\* Mutant: the writer does not wait for log_mutex.
LogLock_NoWait(th) ==
    /\ pc[th] = "log_lock"
    /\ log_mutex' = th
    /\ pc' = [pc EXCEPT ![th] = "log_write"]
    /\ UNCHANGED <<lg, log, task, res, calls, oracle, inp, futures, results, ret, healthVars, batchVars>>

\* std::lock_guard<std::mutex> lock(log_mutex)
LogLock(th) ==
    /\ pc[th] = "log_lock"
    /\ log_mutex = Free
    /\ log_mutex' = th
    /\ pc' = [pc EXCEPT ![th] = "log_write"]
    /\ UNCHANGED <<lg, log, task, res, calls, oracle, inp, futures, results, ret, healthVars, batchVars>>

\* printf, fflush, and the lock_guard's release at the end of the scope
LogWrite(th) ==
    /\ pc[th] = "log_write"
    /\ log_mutex = th
    /\ log' = Append(log, <<th, lg[th].msg>>)
    /\ log_mutex' = Free
    /\ pc' = [pc EXCEPT ![th] = lg[th].ret]
    /\ lg' = [lg EXCEPT ![th] = NoLog]
    /\ UNCHANGED <<task, res, calls, oracle, inp, futures, results, ret, healthVars, batchVars>>

\* ----------------------------------------------- parallel_template_match
\* Mutant: the comparison of line 125 made strict.
Found_Strict(max_val, threshold) == max_val > threshold

\* result.found = max_val >= threshold
Found(max_val, threshold) == max_val >= threshold

\* The two early returns of lines 105-113 (TemplateLarger_RowsOnly is the
\* mutant that forgets the comparison of the columns).
EmptyInput(image, template_img) == MatEmpty(image) \/ MatEmpty(template_img)
TemplateLarger_RowsOnly(image, template_img) ==
    template_img.rows > image.rows

TemplateLarger(image, template_img) ==
    template_img.rows > image.rows \/ template_img.cols > image.cols

\* Lines 95-113: start the clock, initialise result, and the two checks.
\* An early return leaves through thread_safe_log and never reaches line 135,
\* so the caller reads an indeterminate processing_time_ms; on the other
\* paths line 135 overwrites the field before anyone reads it.
MatchStart(t) ==
    /\ pc[t] = "pm_start"
    /\ IF EmptyInput(task[t].image, task[t].templ)
         THEN /\ CallLog(t, "Empty image or template in parallel_template_match", "done")
              /\ \E garbage \in Indeterminate :
                   res' = [res EXCEPT ![t] =
                             MatchResult(0, Origin, 0, FALSE, task[t].template_id, garbage)]
         ELSE IF TemplateLarger(task[t].image, task[t].templ)
                THEN /\ CallLog(t, "Template larger than image", "done")
                     /\ \E garbage \in Indeterminate :
                          res' = [res EXCEPT ![t] =
                             MatchResult(0, Origin, 0, FALSE, task[t].template_id, garbage)]
                ELSE /\ pc' = [pc EXCEPT ![t] = "pm_match"]
                     /\ lg' = lg
                     /\ res' = [res EXCEPT ![t] =
                             MatchResult(0, Origin, 0, FALSE, task[t].template_id, 0)]
    /\ UNCHANGED <<log_mutex, log, task, calls, oracle, inp, futures, results, ret, healthVars, batchVars>>

\* Mutant: no catch clause, the primitive's exception leaves the function.
MatchCorrelate_Uncaught(t) ==
    /\ pc[t] = "pm_match"
    /\ calls' = [calls EXCEPT ![t] = @ + 1]
    /\ IF oracle[t].kind = "ok"
         THEN /\ res' = [res EXCEPT ![t] =
                    [@ EXCEPT !.max_val = oracle[t].val,
                              !.max_loc = oracle[t].loc,
                              !.confidence = oracle[t].val,
                              !.found = oracle[t].val >= task[t].threshold]]
              /\ pc' = [pc EXCEPT ![t] = "pm_time"]
         ELSE /\ res' = res
              /\ pc' = [pc EXCEPT ![t] = "raised"]
    /\ UNCHANGED <<lg, log_mutex, log, task, oracle, inp, futures, results, ret, healthVars, batchVars>>

\* Mutant: a line is logged after every correlation, not only in the handlers.
MatchCorrelate_Chatty(t) ==
    /\ pc[t] = "pm_match"
    /\ calls' = [calls EXCEPT ![t] = @ + 1]
    /\ IF oracle[t].kind = "ok"
         THEN /\ res' = [res EXCEPT ![t] =
                    [@ EXCEPT !.max_val = oracle[t].val,
                              !.max_loc = oracle[t].loc,
                              !.confidence = oracle[t].val,
                              !.found = oracle[t].val >= task[t].threshold]]
              /\ CallLog(t, "Template matching completed", "pm_time")
         ELSE /\ res' = res
              /\ CallLog(t, "OpenCV error in template matching", "pm_time")
    /\ UNCHANGED <<log_mutex, log, task, oracle, inp, futures, results, ret, healthVars, batchVars>>

\* Lines 115-131: matchTemplate, minMaxLoc, the four assignments, and the
\* two catch clauses, which log and fall through to line 133.
MatchCorrelate(t) ==
    /\ pc[t] = "pm_match"
    /\ calls' = [calls EXCEPT ![t] = @ + 1]
    /\ IF oracle[t].kind = "ok"
         THEN /\ res' = [res EXCEPT ![t] =
                    [@ EXCEPT !.max_val = oracle[t].val,
                              !.max_loc = oracle[t].loc,
                              !.confidence = oracle[t].val,
                              !.found = Found(oracle[t].val, task[t].threshold)]]
              /\ pc' = [pc EXCEPT ![t] = "pm_time"]
              /\ lg' = lg
         ELSE /\ res' = res
              /\ CallLog(t, "OpenCV error in template matching", "pm_time")
    /\ UNCHANGED <<log_mutex, log, task, oracle, inp, futures, results, ret, healthVars, batchVars>>

\* Lines 133-137: stop the clock, set processing_time_ms, return.
MatchTime(t) ==
    /\ pc[t] = "pm_time"
    /\ res' = [res EXCEPT ![t].processing_time_ms = oracle[t].ms]
    /\ pc' = [pc EXCEPT ![t] = "done"]
    /\ UNCHANGED <<lg, log_mutex, log, task, calls, oracle, inp, futures, results, ret, healthVars, batchVars>>

parallel_template_match(t) ==
    \/ MatchStart(t)
    \/ MatchCorrelate(t)
    \/ MatchTime(t)
    \/ LogLock(t)
    \/ LogWrite(t)

\* ------------------------------------------------------------- matchOne
\* One call of parallel_template_match on every image, template, threshold
\* and behaviour of the primitives within the bounds; thread 1 runs it.
IdlePc == [th \in Threads |-> "idle"]

InitMatchOne ==
    /\ \E image \in Mats, templ \in Mats, threshold \in Thresholds, id \in {0, 1} :
         task = [t \in Matchers |->
                   IF t = 1 THEN [image |-> image, templ |-> templ,
                                  threshold |-> threshold, template_id |-> id]
                            ELSE NoTask]
    /\ \E o \in Outcomes :
         oracle = [t \in Matchers |-> IF t = 1 THEN o ELSE NoOutcome]
    /\ pc = [IdlePc EXCEPT ![1] = "pm_start"]
    /\ lg = [th \in Threads |-> NoLog]
    /\ log_mutex = Free
    /\ log = <<>>
    /\ res = [t \in Matchers |-> NoResult]
    /\ calls = [t \in Matchers |-> 0]
    /\ inp = <<>>
    /\ futures = <<>>
    /\ results = <<>>
    /\ ret = ""
    /\ hres = NoHealth
    /\ color = NoColor
    /\ ccalls = 0
    /\ gil = MainThread
    /\ pyerr = ""
    /\ bi = 0
    /\ bj = 0
    /\ exc = ""
    /\ iret = [i \in 1..MaxBatch |-> NoObject]

NextMatchOne == parallel_template_match(1)

SpecMatchOne == InitMatchOne /\ [][NextMatchOne]_vars

\* --------------------------------------------------- multi_template_match
\* The placeholder of line 166, pushed when future.get() throws.
error_result == MatchResult(0, Origin, 0, FALSE, -1, 0)

\* What future.get() hands back for matcher t: parallel_template_match
\* catches what the primitives throw, so the future always holds a value.
FutureGet(t) == res[t]

\* The call came from cpp_multi_template_match (line 379), whose arguments
\* are Python objects; multi_template_match returns, or throws, to it.
CalledFromPython == "template_list" \in DOMAIN inp

\* Lines 148-151: the size check.
ManyCheck ==
    /\ pc[MainThread] = "mm_check"
    /\ IF Len(inp.templates) # Len(inp.thresholds)
         THEN CallLog(MainThread, "Template and threshold vectors size mismatch", "mm_return")
         ELSE pc' = [pc EXCEPT ![MainThread] = "mm_launch"] /\ lg' = lg
    /\ UNCHANGED <<log_mutex, log, task, res, calls, oracle, inp, futures, results, ret, healthVars, batchVars>>

\* Lines 154-158, one iteration: std::async starts a thread for templates[i]
\* and its future is pushed. The next matcher id is the loop index i + 1.
ManyLaunch ==
    /\ pc[MainThread] = "mm_launch"
    /\ Len(futures) < Len(inp.templates)
    /\ LET i == Len(futures) + 1
       IN /\ task' = [task EXCEPT ![i] =
                        [image |-> inp.image, templ |-> inp.templates[i],
                         threshold |-> inp.thresholds[i], template_id |-> i - 1]]
          /\ pc' = [pc EXCEPT ![i] = "pm_start"]
          /\ futures' = Append(futures, i)
    /\ UNCHANGED <<lg, log_mutex, log, res, calls, oracle, inp, results, ret, healthVars, batchVars>>

\* std::async throws std::system_error when no thread can be started; the
\* launch loop has no handler, so the exception leaves multi_template_match.
ManyLaunchFails ==
    /\ pc[MainThread] = "mm_launch"
    /\ Len(futures) < Len(inp.templates)
    /\ pc' = [pc EXCEPT ![MainThread] = "mm_unwind"]
    /\ UNCHANGED <<lg, log_mutex, log, task, res, calls, oracle, inp, futures, results, ret, healthVars, batchVars>>

\* The loop condition of line 154 fails: on to the collection loop.
ManyLaunched ==
    /\ pc[MainThread] = "mm_launch"
    /\ Len(futures) = Len(inp.templates)
    /\ pc' = [pc EXCEPT ![MainThread] = "mm_collect"]
    /\ UNCHANGED <<lg, log_mutex, log, task, res, calls, oracle, inp, futures, results, ret, healthVars, batchVars>>

\* Mutant: results are gathered as the tasks complete, not by position.
ManyCollect_AsCompleted ==
    /\ pc[MainThread] = "mm_collect"
    /\ Len(results) < Len(futures)
    /\ \E j \in 1..Len(futures) :
         /\ pc[futures[j]] = "done"
         /\ \A k \in 1..Len(results) : results[k].template_id # res[futures[j]].template_id
         /\ results' = Append(results, res[futures[j]])
    /\ UNCHANGED <<pc, lg, log_mutex, log, task, res, calls, oracle, inp, futures, ret, healthVars, batchVars>>

\* Mutant: the collection loop stops at the first task whose primitives
\* raised and returns what it has gathered so far.
ManyCollect_AbortOnFailure ==
    /\ pc[MainThread] = "mm_collect"
    /\ Len(results) < Len(futures)
    /\ LET t == futures[Len(results) + 1]
       IN /\ pc[t] = "done"
          /\ IF calls[t] > 0 /\ oracle[t].kind # "ok"
               THEN /\ pc' = [pc EXCEPT ![MainThread] = "mm_return"]
                    /\ results' = results
               ELSE /\ pc' = pc
                    /\ results' = Append(results, res[t])
    /\ UNCHANGED <<lg, log_mutex, log, task, res, calls, oracle, inp, futures, ret, healthVars, batchVars>>

\* Lines 161-169, one iteration: future.get() blocks until the task has
\* returned; its value is pushed.
ManyCollect ==
    /\ pc[MainThread] = "mm_collect"
    /\ Len(results) < Len(futures)
    /\ LET t == futures[Len(results) + 1]
       IN /\ pc[t] = "done"
          /\ results' = Append(results, FutureGet(t))
    /\ UNCHANGED <<pc, lg, log_mutex, log, task, res, calls, oracle, inp, futures, ret, healthVars, batchVars>>

\* Line 171: return results (also reached from line 150, with results empty).
ManyReturn ==
    /\ \/ pc[MainThread] = "mm_collect" /\ Len(results) = Len(futures)
       \/ pc[MainThread] = "mm_return"
    /\ pc' = [pc EXCEPT ![MainThread] = IF CalledFromPython THEN "py_log" ELSE "done"]
    /\ ret' = "returned"
    /\ UNCHANGED <<lg, log_mutex, log, task, res, calls, oracle, inp, futures, results, healthVars, batchVars>>

\* Mutant: unwinding does not wait for the tasks that were started (their
\* futures are dropped as those of detached threads would be).
ManyUnwind_NoJoin ==
    /\ pc[MainThread] = "mm_unwind"
    /\ pc' = [pc EXCEPT ![MainThread] = IF CalledFromPython THEN "py_catch" ELSE "done"]
    /\ ret' = "exception"
    /\ UNCHANGED <<lg, log_mutex, log, task, res, calls, oracle, inp, futures, results, healthVars, batchVars>>

\* Stack unwinding destroys futures: the destructor of a future obtained
\* from std::async blocks until its task has finished.
ManyUnwind ==
    /\ pc[MainThread] = "mm_unwind"
    /\ \A j \in 1..Len(futures) : pc[futures[j]] = "done"
    /\ pc' = [pc EXCEPT ![MainThread] = IF CalledFromPython THEN "py_catch" ELSE "done"]
    /\ ret' = "exception"
    /\ UNCHANGED <<lg, log_mutex, log, task, res, calls, oracle, inp, futures, results, healthVars, batchVars>>

multi_template_match ==
    \/ ManyCheck
    \/ ManyLaunch
    \/ ManyLaunchFails
    \/ ManyLaunched
    \/ ManyCollect
    \/ ManyReturn
    \/ ManyUnwind
    \/ LogLock(MainThread)
    \/ LogWrite(MainThread)

\* Inputs of matchMany: one image, up to MaxTemplates templates (an empty
\* one, one that fits the image, one that exceeds it) and thresholds.
ManyImage == Mat(1, 1)
ManyTemplates == {Mat(0, 0), Mat(1, 1), Mat(MaxDim, 1)}
ManyThresholds == {0, 70}
ManyOutcomes ==
    {[kind |-> "ok", val |-> 0, loc |-> Point(0, 0), ms |-> 0],
     [kind |-> "ok", val |-> 100, loc |-> Point(1, 0), ms |-> 0],
     [kind |-> "matchTemplate_raise", val |-> 0, loc |-> Origin, ms |-> 0]}

SeqsUpTo(S, n) == UNION {[1..k -> S] : k \in 0..n}

\* The primitives are consulted only for a pair that passes the checks of
\* lines 105-113; for the others the oracle is left at NoOutcome.
OracleFor(image, templates) ==
    {o \in [Matchers -> ManyOutcomes] :
        \A t \in Matchers :
            (t > Len(templates)
               \/ EmptyInput(image, templates[t])
               \/ TemplateLarger(image, templates[t])) => o[t] = NoOutcome}

\* A call of multi_template_match on ManyImage with a template vector and a
\* threshold vector of the given sets.
ManyCall(template_vectors, threshold_vectors) ==
    /\ \E templates \in template_vectors, thresholds \in threshold_vectors :
         /\ inp = [image |-> ManyImage, templates |-> templates, thresholds |-> thresholds]
         /\ oracle \in OracleFor(ManyImage,
                                 IF Len(templates) = Len(thresholds) THEN templates ELSE <<>>)
    /\ pc = [IdlePc EXCEPT ![MainThread] = "mm_check"]
    /\ lg = [th \in Threads |-> NoLog]
    /\ log_mutex = Free
    /\ log = <<>>
    /\ task = [t \in Matchers |-> NoTask]
    /\ res = [t \in Matchers |-> NoResult]
    /\ calls = [t \in Matchers |-> 0]
    /\ futures = <<>>
    /\ results = <<>>
    /\ ret = ""
    /\ hres = NoHealth
    /\ color = NoColor
    /\ ccalls = 0
    /\ gil = MainThread
    /\ pyerr = ""
    /\ bi = 0
    /\ bj = 0
    /\ exc = ""
    /\ iret = [i \in 1..MaxBatch |-> NoObject]

InitMany ==
    ManyCall(SeqsUpTo(ManyTemplates, MaxTemplates), SeqsUpTo(ManyThresholds, MaxTemplates))

NextMany ==
    \/ multi_template_match
    \/ \E t \in Matchers : parallel_template_match(t)

SpecMany == InitMany /\ [][NextMany]_vars

\* ------------------------------------------------- detect_health_parallel
\* The fixed thresholds of lines 196 and 200, and the floor of line 253.
HealthBarThreshold == 70
EmptyHealthThreshold == 80
EmptyFloor == 5

\* a < b for a quotient a = <<n, d>> (d > 0) and b in hundredths
Less(a, b) == a[1] * 100 < b * a[2]

Max(a, b) == IF a >= b THEN a ELSE b
Min(a, b) == IF a <= b THEN a ELSE b

\* Mutant: the height is clipped against the columns.
ClipRoi_HeightByCols(loc, template_size, screenshot) ==
    LET x == Max(0, loc[1])
        y == Max(0, loc[2])
    IN [x |-> x, y |-> y,
        width |-> Min(template_size.cols, screenshot.cols - x),
        height |-> Min(template_size.rows, screenshot.cols - y)]

\* Mutant: the width is not clipped (line 220 left out).
ClipRoi_WidthUnclipped(loc, template_size, screenshot) ==
    LET x == Max(0, loc[1])
        y == Max(0, loc[2])
    IN [x |-> x, y |-> y,
        width |-> template_size.cols,
        height |-> Min(template_size.rows, screenshot.rows - y)]

\* Lines 215-221: the region at the match location, clipped to the image.
ClipRoi(loc, template_size, screenshot) ==
    LET x == Max(0, loc[1])
        y == Max(0, loc[2])
    IN [x |-> x, y |-> y,
        width |-> Min(template_size.cols, screenshot.cols - x),
        height |-> Min(template_size.rows, screenshot.rows - y)]

\* screenshot(health_roi): cv::Mat::operator() asserts that the rectangle
\* lies inside the matrix and throws cv::Exception otherwise.
RoiInside(roi, m) ==
    /\ 0 <= roi.x /\ 0 <= roi.width /\ roi.x + roi.width <= m.cols
    /\ 0 <= roi.y /\ 0 <= roi.height /\ roi.y + roi.height <= m.rows

\* Lines 236-241: cv::countNonZero(red_mask) over the region.
RedPixels(roi) ==
    roi.height * Cardinality({x \in roi.x..(roi.x + roi.width - 1) : x < color.fill})

\* Mutant: the two disjuncts of line 253 joined by "and".
IsEmpty_Both(empty_found, health_percentage) ==
    empty_found /\ Less(health_percentage, EmptyFloor)

\* Line 253
IsEmpty(empty_found, health_percentage) ==
    empty_found \/ Less(health_percentage, EmptyFloor)

\* Mutant: "<=" for "<" (n/d <= b exactly when not b < n/d).
IsCritical_OrEqual(health_percentage, health_threshold) ==
    health_percentage[1] * 100 <= health_threshold * health_percentage[2]

\* Line 254
IsCritical(health_percentage, health_threshold) ==
    Less(health_percentage, health_threshold)

\* Lines 177-191: the initial result and the empty-input return.
HealthStart ==
    /\ pc[MainThread] = "dh_start"
    /\ hres' = NoHealth
    /\ IF \/ MatEmpty(inp.screenshot)
          \/ MatEmpty(inp.health_bar_template)
          \/ MatEmpty(inp.empty_health_template)
         THEN CallLog(MainThread, "Empty input in health detection", "dh_return")
         ELSE pc' = [pc EXCEPT ![MainThread] = "dh_launch"] /\ lg' = lg
    /\ UNCHANGED <<log_mutex, log, task, res, calls, oracle, inp, futures, results, ret,
                   color, ccalls, batchVars>>

\* Lines 194-200, one std::async: matcher 1 gets the bar template with
\* threshold 0.7 and id 0, matcher 2 the empty-bar template with 0.8 and id 1.
HealthLaunch ==
    /\ pc[MainThread] = "dh_launch"
    /\ LET i == Len(futures) + 1
       IN /\ task' = [task EXCEPT ![i] =
                 [image |-> inp.screenshot,
                  templ |-> IF i = 1 THEN inp.health_bar_template
                                     ELSE inp.empty_health_template,
                  threshold |-> IF i = 1 THEN HealthBarThreshold ELSE EmptyHealthThreshold,
                  template_id |-> i - 1]]
          /\ futures' = Append(futures, i)
          /\ pc' = [pc EXCEPT ![i] = "pm_start",
                              ![MainThread] = IF i = 1 THEN "dh_launch" ELSE "dh_get"]
    /\ UNCHANGED <<lg, log_mutex, log, res, calls, oracle, inp, results, ret, healthVars, batchVars>>

\* std::async throws std::system_error: control leaves the try block.
HealthLaunchFails ==
    /\ pc[MainThread] = "dh_launch"
    /\ pc' = [pc EXCEPT ![MainThread] = "dh_unwind"]
    /\ UNCHANGED <<lg, log_mutex, log, task, res, calls, oracle, inp, futures, results, ret,
                   healthVars, batchVars>>

\* Leaving the try block destroys the futures, which blocks until their
\* tasks have finished; then the handler of lines 256-260 logs.
HealthCatch ==
    /\ pc[MainThread] = "dh_unwind"
    /\ \A j \in 1..Len(futures) : pc[futures[j]] = "done"
    /\ CallLog(MainThread, "Error in health detection", "dh_time")
    /\ UNCHANGED <<log_mutex, log, task, res, calls, oracle, inp, futures, results, ret,
                   healthVars, batchVars>>

\* Mutant: the two results are taken in the order the tasks finish.
HealthGet_AsCompleted ==
    /\ pc[MainThread] = "dh_get"
    /\ Len(results) < Len(futures)
    /\ \E j \in 1..Len(futures) :
         /\ pc[futures[j]] = "done"
         /\ \A k \in 1..Len(results) : results[k].template_id # res[futures[j]].template_id
         /\ results' = Append(results, res[futures[j]])
    /\ pc' = [pc EXCEPT ![MainThread] = IF Len(results') = Len(futures)
                                          THEN "dh_analyze" ELSE "dh_get"]
    /\ UNCHANGED <<lg, log_mutex, log, task, res, calls, oracle, inp, futures, ret,
                   healthVars, batchVars>>

\* Lines 203-204: health_bar_future.get(), then empty_health_future.get().
HealthGet ==
    /\ pc[MainThread] = "dh_get"
    /\ Len(results) < Len(futures)
    /\ LET t == futures[Len(results) + 1]
       IN /\ pc[t] = "done"
          /\ results' = Append(results, FutureGet(t))
    /\ pc' = [pc EXCEPT ![MainThread] = IF Len(results') = Len(futures)
                                          THEN "dh_analyze" ELSE "dh_get"]
    /\ UNCHANGED <<lg, log_mutex, log, task, res, calls, oracle, inp, futures, ret,
                   healthVars, batchVars>>

\* Lines 206-254. results[1] is health_bar_result, results[2] is
\* empty_health_result. An exception of operator() or of a colour primitive
\* leaves the try block with lines 206-207 done and lines 245-254 not done.
HealthAnalyze ==
    /\ pc[MainThread] = "dh_analyze"
    /\ LET health_bar_result == results[1]
           empty_health_result == results[2]
           health_roi == ClipRoi(health_bar_result.max_loc, inp.health_bar_template,
                                 inp.screenshot)
           located == [hres EXCEPT !.health_bar_found = health_bar_result.found,
                                   !.health_location = health_bar_result.max_loc]
           analysed == health_bar_result.found
                          /\ health_roi.width > 0 /\ health_roi.height > 0
           raises == analysed /\ (~RoiInside(health_roi, inp.screenshot)
                                    \/ color.kind # "ok")
           hp == IF analysed
                   THEN <<RedPixels(health_roi), health_roi.height * health_roi.width>>
                   ELSE located.health_percentage
       IN /\ ccalls' = IF analysed /\ RoiInside(health_roi, inp.screenshot)
                         THEN ccalls + 1 ELSE ccalls
          /\ IF raises
               THEN /\ hres' = located
                    /\ CallLog(MainThread, "OpenCV error in health detection", "dh_time")
               ELSE /\ hres' = [located EXCEPT
                         !.health_percentage = hp,
                         !.is_empty = IsEmpty(empty_health_result.found, hp),
                         !.is_critical = IsCritical(hp, inp.health_threshold)]
                    /\ pc' = [pc EXCEPT ![MainThread] = "dh_time"]
                    /\ lg' = lg
    /\ UNCHANGED <<log_mutex, log, task, res, calls, oracle, inp, futures, results, ret, color, batchVars>>

\* Lines 262-266: processing_time_ms and the return.
HealthTime ==
    /\ pc[MainThread] = "dh_time"
    /\ \E d \in 0..MaxElapsed : hres' = [hres EXCEPT !.processing_time_ms = d]
    /\ pc' = [pc EXCEPT ![MainThread] = "done"]
    /\ ret' = "returned"
    /\ UNCHANGED <<lg, log_mutex, log, task, res, calls, oracle, inp, futures, results,
                   color, ccalls, batchVars>>

\* Line 190: return result.
HealthReturn ==
    /\ pc[MainThread] = "dh_return"
    /\ pc' = [pc EXCEPT ![MainThread] = "done"]
    /\ ret' = "returned"
    /\ UNCHANGED <<lg, log_mutex, log, task, res, calls, oracle, inp, futures, results,
                   healthVars, batchVars>>

detect_health_parallel ==
    \/ HealthStart
    \/ HealthLaunch
    \/ HealthLaunchFails
    \/ HealthCatch
    \/ HealthGet
    \/ HealthAnalyze
    \/ HealthTime
    \/ HealthReturn
    \/ LogLock(MainThread)
    \/ LogWrite(MainThread)

\* Inputs of analyzeHealth.
HealthScreens == {Mat(0, 0), Mat(1, MaxDim), Mat(MaxDim, MaxDim)}
HealthBarTemplates == {Mat(0, 0), Mat(1, 1), Mat(1, MaxDim)}
EmptyBarTemplates == {Mat(0, 0), Mat(1, 1)}
HealthThresholds == {0, 50, 100}
\* cv::minMaxLoc reports a position of the score surface, whose size is
\* image - template + 1 on each axis.
SurfaceLocs(image, templ) ==
    {Point(x, y) : x \in 0..(image.cols - templ.cols), y \in 0..(image.rows - templ.rows)}
BarOutcomes(image, templ) ==
    [kind : {"ok"}, val : {60, 70}, loc : SurfaceLocs(image, templ), ms : {0}]
        \cup {[kind |-> "matchTemplate_raise", val |-> 0, loc |-> Origin, ms |-> 0]}
EmptyBarOutcomes ==
    [kind : {"ok"}, val : {70, 80}, loc : {Origin}, ms : {0}]
        \cup {[kind |-> "minMaxLoc_raise", val |-> 0, loc |-> Origin, ms |-> 0]}
Colors == [kind : {"ok"}, fill : 0..MaxDim] \cup {[kind |-> "cvtColor_raise", fill |-> 0]}

\* The primitives are reached only for non-empty inputs and a template that
\* fits; where they are not, the oracle is left at NoOutcome / NoColor.
Reached(image, templ) == ~EmptyInput(image, templ) /\ ~TemplateLarger(image, templ)

\* analyzeHealth when cv::minMaxLoc may report any position, inside the
\* score surface or not: one column and one row beyond the image on every
\* side.
AnyLocs == {Point(x, y) : x \in -1..(MaxDim + 1), y \in -1..(MaxDim + 1)}
AnyLocOutcomes(image, templ) == [kind : {"ok"}, val : {60, 70}, loc : AnyLocs, ms : {0}]

\* A call of detect_health_parallel on a screenshot, a bar template, an
\* empty-bar template and a threshold of the given sets, where the bar
\* match reports a position of the score surface, or any position.
HealthCallOn(screens, bars, empties, thresholds, anywhere) ==
    /\ \E screenshot \in screens, bar \in bars,
          empty \in empties, health_threshold \in thresholds :
         /\ inp = [screenshot |-> screenshot, health_bar_template |-> bar,
                   empty_health_template |-> empty, health_threshold |-> health_threshold]
         /\ \E b \in (IF Reached(screenshot, bar) /\ ~MatEmpty(empty)
                        THEN (IF anywhere THEN AnyLocOutcomes(screenshot, bar)
                                          ELSE BarOutcomes(screenshot, bar))
                        ELSE {NoOutcome}),
               e \in (IF Reached(screenshot, empty) /\ ~MatEmpty(bar)
                        THEN EmptyBarOutcomes ELSE {NoOutcome}) :
              /\ oracle = [t \in Matchers |-> IF t = 1 THEN b ELSE IF t = 2 THEN e
                                                               ELSE NoOutcome]
              /\ color \in (IF b.kind = "ok" /\ b.val >= HealthBarThreshold
                              THEN Colors ELSE {NoColor})
    /\ pc = [IdlePc EXCEPT ![MainThread] = "dh_start"]
    /\ lg = [th \in Threads |-> NoLog]
    /\ log_mutex = Free
    /\ log = <<>>
    /\ task = [t \in Matchers |-> NoTask]
    /\ res = [t \in Matchers |-> NoResult]
    /\ calls = [t \in Matchers |-> 0]
    /\ futures = <<>>
    /\ results = <<>>
    /\ ret = ""
    /\ hres = NoHealth
    /\ ccalls = 0
    /\ gil = MainThread
    /\ pyerr = ""
    /\ bi = 0
    /\ bj = 0
    /\ exc = ""
    /\ iret = [i \in 1..MaxBatch |-> NoObject]

InitHealth ==
    HealthCallOn(HealthScreens, HealthBarTemplates, EmptyBarTemplates, HealthThresholds,
                 FALSE)

NextHealth ==
    \/ detect_health_parallel
    \/ \E t \in {1, 2} : parallel_template_match(t)

SpecHealth == InitHealth /\ [][NextHealth]_vars

InitHealthAnyLoc ==
    HealthCallOn({Mat(1, MaxDim), Mat(MaxDim, MaxDim)}, {Mat(1, 1), Mat(1, MaxDim)},
                 {Mat(0, 0), Mat(1, 1)}, {50}, TRUE)

SpecHealthAnyLoc == InitHealthAnyLoc /\ [][NextHealth]_vars

\* ------------------------------------------ cpp_batch_process_screenshots
\* A Python object handed in: an ndarray with its shape, or something else.
\* scene stands for the pixels: it fixes what the primitives find in it.
PyObj == [py |-> "object", ndim |-> 0, h |-> 0, w |-> 0, ch |-> 0, scene |-> 0]
Array1D == [py |-> "ndarray", ndim |-> 1, h |-> 1, w |-> 0, ch |-> 0, scene |-> 0]
ArrayBGR(scene) == [py |-> "ndarray", ndim |-> 3, h |-> 1, w |-> 1, ch |-> 3, scene |-> scene]
ArrayGray == [py |-> "ndarray", ndim |-> 2, h |-> 1, w |-> 1, ch |-> 0, scene |-> 0]

\* PyArray_Check
PyArray_Check(o) == o.py = "ndarray"

\* pyarray_to_mat, lines 57-86: the exception it throws, "" when none.
pyarray_to_mat_what(a) ==
    IF a.ndim < 2 \/ a.ndim > 3
      THEN "Array must be 2D or 3D"
      ELSE IF (IF a.ndim = 3 THEN a.ch ELSE 1) \notin {1, 3, 4}
             THEN "Unsupported number of channels"
             ELSE ""

\* pyarray_to_mat, lines 62-89: the matrix it returns.
pyarray_to_mat(a) == Mat(a.h, a.w)

\* The two matchers and the scene of list index i.
HealthMatcher(i) == 2 * i - 1
RespawnMatcher(i) == 2 * i

\* Lines 439-452: the result list, the two templates, and the release of
\* the interpreter lock. A template that does not convert throws to line 521.
BatchStart ==
    /\ pc[MainThread] = "pb_start"
    /\ LET what == IF pyarray_to_mat_what(inp.health_template) # ""
                     THEN pyarray_to_mat_what(inp.health_template)
                     ELSE pyarray_to_mat_what(inp.respawn_template)
       IN IF what # ""
            THEN /\ pc' = [pc EXCEPT ![MainThread] = "pb_catch"]
                 /\ exc' = what
                 /\ gil' = gil
            ELSE /\ pc' = [pc EXCEPT ![MainThread] = "pb_loop"]
                 /\ exc' = exc
                 /\ gil' = Free
    /\ UNCHANGED <<lg, log_mutex, log, task, res, calls, oracle, inp, futures, results, ret,
                   healthVars, pyerr, bi, bj, iret>>

\* Line 456: Py_BLOCK_THREADS at the head of an iteration.
BatchBlock ==
    /\ pc[MainThread] = "pb_loop"
    /\ bi < Len(inp.screenshot_list)
    /\ gil = Free
    /\ gil' = MainThread
    /\ pc' = [pc EXCEPT ![MainThread] = "pb_item"]
    /\ UNCHANGED <<lg, log_mutex, log, task, res, calls, oracle, inp, futures, results, ret,
                   healthVars, pyerr, bi, bj, exc, iret>>

\* Lines 458-496: the item is skipped when it is no array; else it is
\* converted (which may throw) and its task is started and pushed.
BatchItem ==
    /\ pc[MainThread] = "pb_item"
    /\ LET screenshot_item == inp.screenshot_list[bi + 1]
       IN IF ~PyArray_Check(screenshot_item)
            THEN /\ pc' = [pc EXCEPT ![MainThread] = "pb_unblock"]
                 /\ UNCHANGED <<futures, exc>>
            ELSE IF pyarray_to_mat_what(screenshot_item) # ""
                   THEN /\ pc' = [pc EXCEPT ![MainThread] = "pb_unwind"]
                        /\ exc' = pyarray_to_mat_what(screenshot_item)
                        /\ UNCHANGED futures
                   ELSE /\ pc' = [pc EXCEPT ![MainThread] = "pb_unblock",
                                            ![ItemThread(bi + 1)] = "it_launch1"]
                        /\ futures' = Append(futures, bi + 1)
                        /\ UNCHANGED exc
    /\ UNCHANGED <<lg, log_mutex, log, task, res, calls, oracle, inp, results, ret,
                   healthVars, gil, pyerr, bi, bj, iret>>

\* Line 464: std::async throws std::system_error, no thread is started.
BatchItemLaunchFails ==
    /\ pc[MainThread] = "pb_item"
    /\ PyArray_Check(inp.screenshot_list[bi + 1])
    /\ pyarray_to_mat_what(inp.screenshot_list[bi + 1]) = ""
    /\ pc' = [pc EXCEPT ![MainThread] = "pb_unwind"]
    /\ exc' = "Resource temporarily unavailable"
    /\ UNCHANGED <<lg, log_mutex, log, task, res, calls, oracle, inp, futures, results, ret,
                   healthVars, gil, pyerr, bi, bj, iret>>

\* Mutant: the iteration ends without Py_UNBLOCK_THREADS.
BatchUnblock_KeepsLock ==
    /\ pc[MainThread] = "pb_unblock"
    /\ gil' = gil
    /\ bi' = bi + 1
    /\ pc' = [pc EXCEPT ![MainThread] = "pb_loop"]
    /\ UNCHANGED <<lg, log_mutex, log, task, res, calls, oracle, inp, futures, results, ret,
                   healthVars, pyerr, bj, exc, iret>>

\* Line 498: Py_UNBLOCK_THREADS, and ++i.
BatchUnblock ==
    /\ pc[MainThread] = "pb_unblock"
    /\ gil' = Free
    /\ bi' = bi + 1
    /\ pc' = [pc EXCEPT ![MainThread] = "pb_loop"]
    /\ UNCHANGED <<lg, log_mutex, log, task, res, calls, oracle, inp, futures, results, ret,
                   healthVars, pyerr, bj, exc, iret>>

\* The loop condition of line 455 fails.
BatchDispatched ==
    /\ pc[MainThread] = "pb_loop"
    /\ bi = Len(inp.screenshot_list)
    /\ pc' = [pc EXCEPT ![MainThread] = "pb_collect"]
    /\ UNCHANGED <<lg, log_mutex, log, task, res, calls, oracle, inp, futures, results, ret,
                   healthVars, batchVars>>

\* Lines 504-506: future.get() blocks until the task has returned; a
\* nullptr is passed over, any other pointer is appended.
BatchGet ==
    /\ pc[MainThread] = "pb_collect"
    /\ bj < Len(futures)
    /\ pc[ItemThread(futures[bj + 1])] = "done"
    /\ IF iret[futures[bj + 1]] = PyNull
         THEN bj' = bj + 1 /\ pc' = pc
         ELSE bj' = bj /\ pc' = [pc EXCEPT ![MainThread] = "pb_append_block"]
    /\ UNCHANGED <<lg, log_mutex, log, task, res, calls, oracle, inp, futures, results, ret,
                   healthVars, gil, pyerr, bi, exc, iret>>

\* Line 506: Py_BLOCK_THREADS
BatchAppendBlock ==
    /\ pc[MainThread] = "pb_append_block"
    /\ gil = Free
    /\ gil' = MainThread
    /\ pc' = [pc EXCEPT ![MainThread] = "pb_append"]
    /\ UNCHANGED <<lg, log_mutex, log, task, res, calls, oracle, inp, futures, results, ret,
                   healthVars, pyerr, bi, bj, exc, iret>>

\* Lines 507-508: PyList_Append(results, result), Py_UNBLOCK_THREADS.
BatchAppend ==
    /\ pc[MainThread] = "pb_append"
    /\ results' = Append(results, iret[futures[bj + 1]])
    /\ gil' = Free
    /\ bj' = bj + 1
    /\ pc' = [pc EXCEPT ![MainThread] = "pb_collect"]
    /\ UNCHANGED <<lg, log_mutex, log, task, res, calls, oracle, inp, futures, ret,
                   healthVars, pyerr, bi, exc, iret>>

\* Lines 515-517: the closing log line.
BatchCollected ==
    /\ pc[MainThread] = "pb_collect"
    /\ bj = Len(futures)
    /\ CallLog(MainThread, "Batch processing completed", "pb_end")
    /\ UNCHANGED <<log_mutex, log, task, res, calls, oracle, inp, futures, results, ret,
                   healthVars, batchVars>>

\* Lines 519 and 529: Py_END_ALLOW_THREADS, return results.
BatchEnd ==
    /\ pc[MainThread] = "pb_end"
    /\ gil = Free
    /\ gil' = MainThread
    /\ ret' = "returned"
    /\ pc' = [pc EXCEPT ![MainThread] = "done"]
    /\ UNCHANGED <<lg, log_mutex, log, task, res, calls, oracle, inp, futures, results,
                   healthVars, pyerr, bi, bj, exc, iret>>

\* An exception of the dispatch loop unwinds the try block of line 444: the
\* destructor of each pushed future blocks until its task has returned.
BatchUnwind ==
    /\ pc[MainThread] = "pb_unwind"
    /\ \A j \in 1..Len(futures) : pc[ItemThread(futures[j])] = "done"
    /\ pc' = [pc EXCEPT ![MainThread] = "pb_catch"]
    /\ UNCHANGED <<lg, log_mutex, log, task, res, calls, oracle, inp, futures, results, ret,
                   healthVars, batchVars>>

\* Lines 521-523: the handler logs.
BatchCatch ==
    /\ pc[MainThread] = "pb_catch"
    /\ CallLog(MainThread, "Error in batch processing", "pb_error")
    /\ UNCHANGED <<log_mutex, log, task, res, calls, oracle, inp, futures, results, ret,
                   healthVars, batchVars>>

\* Lines 524-526: PyErr_SetString, Py_DECREF(results), return NULL.
BatchError ==
    /\ pc[MainThread] = "pb_error"
    /\ pyerr' = "RuntimeError"
    /\ results' = <<>>
    /\ ret' = "error"
    /\ pc' = [pc EXCEPT ![MainThread] = "done"]
    /\ UNCHANGED <<lg, log_mutex, log, task, res, calls, oracle, inp, futures,
                   healthVars, gil, bi, bj, exc, iret>>

cpp_batch_process_screenshots ==
    \/ BatchStart
    \/ BatchBlock
    \/ BatchItem
    \/ BatchItemLaunchFails
    \/ BatchUnblock
    \/ BatchDispatched
    \/ BatchGet
    \/ BatchAppendBlock
    \/ BatchAppend
    \/ BatchCollected
    \/ BatchEnd
    \/ BatchUnwind
    \/ BatchCatch
    \/ BatchError
    \/ LogLock(MainThread)
    \/ LogWrite(MainThread)

\* The task of list index i, lines 464-493. The lambda holds copies of the
\* screenshot and of the two templates.
\* Lines 467-473, one std::async.
ItemLaunch(i) ==
    /\ pc[ItemThread(i)] \in {"it_launch1", "it_launch2"}
    /\ LET first == pc[ItemThread(i)] = "it_launch1"
           t == IF first THEN HealthMatcher(i) ELSE RespawnMatcher(i)
       IN /\ task' = [task EXCEPT ![t] =
                 [image |-> pyarray_to_mat(inp.screenshot_list[i]),
                  templ |-> pyarray_to_mat(IF first THEN inp.health_template
                                                    ELSE inp.respawn_template),
                  threshold |-> IF first THEN HealthBarThreshold ELSE EmptyHealthThreshold,
                  template_id |-> IF first THEN 0 ELSE 1]]
          /\ pc' = [pc EXCEPT ![t] = "pm_start",
                              ![ItemThread(i)] = IF first THEN "it_launch2" ELSE "it_get1"]
    /\ UNCHANGED <<lg, log_mutex, log, res, calls, oracle, inp, futures, results, ret,
                   healthVars, batchVars>>

\* std::async throws std::system_error inside the lambda's try block.
ItemLaunchFails(i) ==
    /\ pc[ItemThread(i)] \in {"it_launch1", "it_launch2"}
    /\ pc' = [pc EXCEPT ![ItemThread(i)] = "it_unwind"]
    /\ UNCHANGED <<lg, log_mutex, log, task, res, calls, oracle, inp, futures, results, ret,
                   healthVars, batchVars>>

\* Unwinding destroys health_future, which blocks until its task has
\* returned; then the handler of lines 489-490 logs.
ItemCatch(i) ==
    /\ pc[ItemThread(i)] = "it_unwind"
    /\ pc[HealthMatcher(i)] \in {"idle", "done"}
    /\ CallLog(ItemThread(i), "Error in batch processing item", "it_none")
    /\ UNCHANGED <<log_mutex, log, task, res, calls, oracle, inp, futures, results, ret,
                   healthVars, batchVars>>

\* Line 491: return Py_None.
ItemNone(i) ==
    /\ pc[ItemThread(i)] = "it_none"
    /\ iret' = [iret EXCEPT ![i] = Py_None]
    /\ pc' = [pc EXCEPT ![ItemThread(i)] = "done"]
    /\ UNCHANGED <<lg, log_mutex, log, task, res, calls, oracle, inp, futures, results, ret,
                   healthVars, gil, pyerr, bi, bj, exc>>

\* Lines 475-476: health_future.get(), then respawn_future.get().
ItemGet(i) ==
    /\ \/ /\ pc[ItemThread(i)] = "it_get1"
          /\ pc[HealthMatcher(i)] = "done"
          /\ pc' = [pc EXCEPT ![ItemThread(i)] = "it_get2"]
       \/ /\ pc[ItemThread(i)] = "it_get2"
          /\ pc[RespawnMatcher(i)] = "done"
          /\ pc' = [pc EXCEPT ![ItemThread(i)] = "it_dict"]
    /\ UNCHANGED <<lg, log_mutex, log, task, res, calls, oracle, inp, futures, results, ret,
                   healthVars, batchVars>>

\* Mutant: the summary takes the health entries from the respawn match and
\* the respawn entries from the health match.
ItemDict_Swapped(i) ==
    /\ pc[ItemThread(i)] = "it_dict"
    /\ LET health_result == FutureGet(HealthMatcher(i))
           respawn_result == FutureGet(RespawnMatcher(i))
       IN iret' = [iret EXCEPT ![i] =
                     Summary(respawn_result.found, respawn_result.confidence,
                             health_result.found, health_result.confidence)]
    /\ pc' = [pc EXCEPT ![ItemThread(i)] = "done"]
    /\ UNCHANGED <<lg, log_mutex, log, task, res, calls, oracle, inp, futures, results, ret,
                   healthVars, gil, pyerr, bi, bj, exc>>

\* Lines 479-487: PyDict_New and the four entries; the dict is returned.
ItemDict(i) ==
    /\ pc[ItemThread(i)] = "it_dict"
    /\ LET health_result == FutureGet(HealthMatcher(i))
           respawn_result == FutureGet(RespawnMatcher(i))
       IN iret' = [iret EXCEPT ![i] =
                     Summary(health_result.found, health_result.confidence,
                             respawn_result.found, respawn_result.confidence)]
    /\ pc' = [pc EXCEPT ![ItemThread(i)] = "done"]
    /\ UNCHANGED <<lg, log_mutex, log, task, res, calls, oracle, inp, futures, results, ret,
                   healthVars, gil, pyerr, bi, bj, exc>>

\* Lines 479-487 when PyDict_New returns NULL: the lambda returns nullptr.
ItemDictFails(i) ==
    /\ pc[ItemThread(i)] = "it_dict"
    /\ iret' = [iret EXCEPT ![i] = PyNull]
    /\ pc' = [pc EXCEPT ![ItemThread(i)] = "done"]
    /\ UNCHANGED <<lg, log_mutex, log, task, res, calls, oracle, inp, futures, results, ret,
                   healthVars, gil, pyerr, bi, bj, exc>>

batch_item(i) ==
    \/ ItemLaunch(i)
    \/ ItemLaunchFails(i)
    \/ ItemCatch(i)
    \/ ItemNone(i)
    \/ ItemGet(i)
    \/ ItemDict(i)
    \/ ItemDictFails(i)
    \/ LogLock(ItemThread(i))
    \/ LogWrite(ItemThread(i))

\* Inputs of processBatch: lists of objects that are no array, arrays that
\* do not convert, and screenshots of two scenes; the health template either
\* converts or does not.
BatchEntries == {PyObj, Array1D, ArrayBGR(0), ArrayBGR(1)}
BatchTemplates == {ArrayGray, Array1D}

\* What the primitives find in a screenshot of a scene: the health template
\* at 0.7 and the respawn template at 0.7, or at 0.6 and at 0.8.
SceneOutcome(scene, first) ==
    [kind |-> "ok",
     val |-> IF scene = 0 THEN 70 ELSE IF first THEN 60 ELSE 80,
     loc |-> Origin, ms |-> 0]

\* A call of cpp_batch_process_screenshots on a list of lists and a health
\* template of templates.
BatchCall(lists, templates) ==
    /\ \E list \in lists, health_template \in templates :
         /\ inp = [screenshot_list |-> list, health_template |-> health_template,
                   respawn_template |-> ArrayGray, health_threshold |-> 30]
         /\ oracle = [t \in Matchers |->
                        IF (t + 1) \div 2 <= Len(list)
                          THEN SceneOutcome(list[(t + 1) \div 2].scene, t % 2 = 1)
                          ELSE NoOutcome]
    /\ pc = [IdlePc EXCEPT ![MainThread] = "pb_start"]
    /\ lg = [th \in Threads |-> NoLog]
    /\ log_mutex = Free
    /\ log = <<>>
    /\ task = [t \in Matchers |-> NoTask]
    /\ res = [t \in Matchers |-> NoResult]
    /\ calls = [t \in Matchers |-> 0]
    /\ futures = <<>>
    /\ results = <<>>
    /\ ret = ""
    /\ hres = NoHealth
    /\ color = NoColor
    /\ ccalls = 0
    /\ gil = MainThread
    /\ pyerr = ""
    /\ bi = 0
    /\ bj = 0
    /\ exc = ""
    /\ iret = [i \in 1..MaxBatch |-> NoObject]

InitBatch == BatchCall(SeqsUpTo(BatchEntries, MaxBatch), BatchTemplates)

NextBatch ==
    \/ cpp_batch_process_screenshots
    \/ \E i \in 1..MaxBatch : batch_item(i)
    \/ \E t \in Matchers : parallel_template_match(t)

SpecBatch == InitBatch /\ [][NextBatch]_vars

\* Batches whose screenshots alternate between the two scenes (the i-th
\* entry, when it is a screenshot, shows scene i mod 2), so that neighbours
\* in the list have different summaries; the templates convert.
AlternatingLists ==
    {list \in SeqsUpTo(BatchEntries, MaxBatch) :
        \A i \in 1..Len(list) : list[i].ndim = 3 => list[i].scene = i % 2}

InitBatchAlternating == BatchCall(AlternatingLists, {ArrayGray})

SpecBatchAlternating == InitBatchAlternating /\ [][NextBatch]_vars

\* Fair scheduling: while some thread can take a step, a step is eventually
\* taken. Every thread here is a thread of its own (the caller, and the
\* std::launch::async tasks), so the scheduler runs one of those that are
\* not waiting for log_mutex, a future or the interpreter lock.
FairBatch == WF_vars(NextBatch)

\* The lists of the fair runs: objects that are no array, arrays that do not
\* convert, and screenshots of one scene, with a health template that converts.
FairEntries == {PyObj, Array1D, ArrayBGR(0)}
InitBatchFair == BatchCall(SeqsUpTo(FairEntries, MaxBatch), {ArrayGray})

SpecBatchFair == InitBatchFair /\ [][NextBatch]_vars /\ FairBatch

\* ------------------------------------------------------ the three callers
\* A call of matchMany, of analyzeHealth or of processBatch. The vectors of
\* matchMany hold empty templates and templates that fit, so that a task
\* returns after a log line or after the primitives.
\* The lists of processBatch hold screenshots and arrays that do not
\* convert, which end the dispatch loop while tasks are running.
JoinTemplates == {Mat(0, 0), Mat(1, 1)}
JoinEntries == {Array1D, ArrayBGR(0)}
InitJoin ==
    \/ ManyCall(SeqsUpTo(JoinTemplates, MaxTemplates), SeqsUpTo({70}, MaxTemplates))
    \/ InitHealth
    \/ BatchCall(SeqsUpTo(JoinEntries, MaxBatch), {ArrayGray})

NextJoin ==
    \/ NextMany
    \/ NextHealth
    \/ NextBatch

SpecJoin == InitJoin /\ [][NextJoin]_vars

\* ----------------------------------------------- cpp_multi_template_match
\* A template array of a scene; scene fixes what the primitives find for it.
ArrayTemplate(scene) == [ArrayGray EXCEPT !.scene = scene]

\* Indices from i on of the list items PyArray_Check accepts, in list order.
RECURSIVE ArrayIndices(_, _)
ArrayIndices(list, i) ==
    IF i > Len(list)
      THEN <<>>
      ELSE (IF PyArray_Check(list[i]) THEN <<i>> ELSE <<>>) \o ArrayIndices(list, i + 1)

\* The dict of lines 401-418 for one MatchResult.
PyMatchDict(r) ==
    [max_val |-> r.max_val, confidence |-> r.confidence, found |-> r.found,
     template_id |-> r.template_id, processing_time_ms |-> r.processing_time_ms,
     location |-> r.max_loc]

\* Mutant: the size check only rejects a template list longer than the
\* threshold list.
PyManyStart_OneSided ==
    /\ pc[MainThread] = "py_start"
    /\ IF pyarray_to_mat_what(inp.image_array) # ""
         THEN /\ pc' = [pc EXCEPT ![MainThread] = "py_catch"]
              /\ exc' = pyarray_to_mat_what(inp.image_array)
              /\ UNCHANGED <<inp, pyerr, ret>>
         ELSE IF Len(inp.template_list) > Len(inp.threshold_list)
                THEN /\ pyerr' = "ValueError"
                     /\ ret' = "error"
                     /\ pc' = [pc EXCEPT ![MainThread] = "done"]
                     /\ UNCHANGED <<inp, exc>>
                ELSE /\ pc' = [pc EXCEPT ![MainThread] = "py_convert"]
                     /\ inp' = [inp EXCEPT !.image = pyarray_to_mat(inp.image_array)]
                     /\ UNCHANGED <<exc, pyerr, ret>>
    /\ UNCHANGED <<lg, log_mutex, log, task, res, calls, oracle, futures, results,
                   healthVars, gil, bi, bj, iret>>

\* Lines 346-356: the image is converted (which may throw to line 387), and
\* lists of different sizes end the call with ValueError.
PyManyStart ==
    /\ pc[MainThread] = "py_start"
    /\ IF pyarray_to_mat_what(inp.image_array) # ""
         THEN /\ pc' = [pc EXCEPT ![MainThread] = "py_catch"]
              /\ exc' = pyarray_to_mat_what(inp.image_array)
              /\ UNCHANGED <<inp, pyerr, ret>>
         ELSE IF Len(inp.template_list) # Len(inp.threshold_list)
                THEN /\ pyerr' = "ValueError"
                     /\ ret' = "error"
                     /\ pc' = [pc EXCEPT ![MainThread] = "done"]
                     /\ UNCHANGED <<inp, exc>>
                ELSE /\ pc' = [pc EXCEPT ![MainThread] = "py_convert"]
                     /\ inp' = [inp EXCEPT !.image = pyarray_to_mat(inp.image_array)]
                     /\ UNCHANGED <<exc, pyerr, ret>>
    /\ UNCHANGED <<lg, log_mutex, log, task, res, calls, oracle, futures, results,
                   healthVars, gil, bi, bj, iret>>

\* Lines 359-376: every item PyArray_Check accepts is converted and pushed
\* with the threshold of its index; a conversion that throws ends the loop
\* at line 387; no template left ends the call with ValueError; else the
\* interpreter lock is released and multi_template_match is called.
PyManyConvert ==
    /\ pc[MainThread] = "py_convert"
    /\ LET idx == ArrayIndices(inp.template_list, 1)
           bad == {k \in 1..Len(idx) : pyarray_to_mat_what(inp.template_list[idx[k]]) # ""}
       IN IF bad # {}
            THEN /\ pc' = [pc EXCEPT ![MainThread] = "py_catch"]
                 /\ exc' = pyarray_to_mat_what(
                              inp.template_list[idx[CHOOSE k \in bad : \A m \in bad : k <= m]])
                 /\ UNCHANGED <<inp, gil, pyerr, ret>>
            ELSE IF idx = <<>>
                   THEN /\ pyerr' = "ValueError"
                        /\ ret' = "error"
                        /\ pc' = [pc EXCEPT ![MainThread] = "done"]
                        /\ UNCHANGED <<inp, gil, exc>>
                   ELSE /\ inp' = [inp EXCEPT
                                     !.templates =
                                         [k \in 1..Len(idx) |->
                                             pyarray_to_mat(inp.template_list[idx[k]])],
                                     !.thresholds =
                                         [k \in 1..Len(idx) |-> inp.threshold_list[idx[k]]]]
                        /\ gil' = Free
                        /\ pc' = [pc EXCEPT ![MainThread] = "mm_check"]
                        /\ UNCHANGED <<exc, pyerr, ret>>
    /\ UNCHANGED <<lg, log_mutex, log, task, res, calls, oracle, futures, results,
                   healthVars, bi, bj, iret>>

\* Lines 381-383: the closing log line.
PyManyLog ==
    /\ pc[MainThread] = "py_log"
    /\ CallLog(MainThread, "Multi-template matching completed", "py_build")
    /\ UNCHANGED <<log_mutex, log, task, res, calls, oracle, inp, futures, results, ret,
                   healthVars, batchVars>>

\* Lines 385-421: Py_END_ALLOW_THREADS, and the list of dicts is returned.
PyManyBuild ==
    /\ pc[MainThread] = "py_build"
    /\ gil = Free
    /\ gil' = MainThread
    /\ results' = [j \in 1..Len(results) |-> PyMatchDict(results[j])]
    /\ ret' = "returned"
    /\ pc' = [pc EXCEPT ![MainThread] = "done"]
    /\ UNCHANGED <<lg, log_mutex, log, task, res, calls, oracle, inp, futures,
                   healthVars, pyerr, bi, bj, exc, iret>>

\* Lines 395-405: PyList_New or PyDict_New returns NULL; so does the call.
PyManyBuildFails ==
    /\ pc[MainThread] = "py_build"
    /\ gil = Free
    /\ gil' = MainThread
    /\ results' = <<>>
    /\ pyerr' = "MemoryError"
    /\ ret' = "error"
    /\ pc' = [pc EXCEPT ![MainThread] = "done"]
    /\ UNCHANGED <<lg, log_mutex, log, task, res, calls, oracle, inp, futures,
                   healthVars, bi, bj, exc, iret>>

\* Lines 387-389: the handler logs.
PyManyCatch ==
    /\ pc[MainThread] = "py_catch"
    /\ CallLog(MainThread, "Error in multi-template matching", "py_error")
    /\ UNCHANGED <<log_mutex, log, task, res, calls, oracle, inp, futures, results, ret,
                   healthVars, batchVars>>

\* Lines 390-391: PyErr_SetString(PyExc_RuntimeError, ...), return NULL.
PyManyError ==
    /\ pc[MainThread] = "py_error"
    /\ pyerr' = "RuntimeError"
    /\ results' = <<>>
    /\ ret' = "error"
    /\ pc' = [pc EXCEPT ![MainThread] = "done"]
    /\ UNCHANGED <<lg, log_mutex, log, task, res, calls, oracle, inp, futures,
                   healthVars, gil, bi, bj, exc, iret>>

cpp_multi_template_match ==
    \/ PyManyStart
    \/ PyManyConvert
    \/ PyManyLog
    \/ PyManyBuild
    \/ PyManyBuildFails
    \/ PyManyCatch
    \/ PyManyError

\* Inputs of cpp_multi_template_match: an image array that converts or does
\* not; a template list of objects that are no array, arrays that do not
\* convert, and templates of two scenes; a list of thresholds.
PyImages == {ArrayGray, Array1D}
PyTemplateEntries == {PyObj, Array1D, ArrayTemplate(0), ArrayTemplate(1)}
PyThresholds == {70, 100}

\* What the primitives find for a template of a scene: 0.7 or 1.0.
TemplateOutcome(scene) ==
    [kind |-> "ok", val |-> IF scene = 0 THEN 70 ELSE 100, loc |-> Origin, ms |-> 0]

\* The primitives are consulted for the k-th pushed template, and only when
\* the call gets as far as multi_template_match.
PyOracleFor(image_array, template_list, threshold_list) ==
    LET idx == ArrayIndices(template_list, 1)
        reached == /\ pyarray_to_mat_what(image_array) = ""
                   /\ Len(template_list) = Len(threshold_list)
                   /\ \A k \in 1..Len(idx) : pyarray_to_mat_what(template_list[idx[k]]) = ""
    IN [t \in Matchers |->
          IF reached /\ t <= Len(idx)
            THEN TemplateOutcome(template_list[idx[t]].scene)
            ELSE NoOutcome]

InitManyPy ==
    /\ \E image_array \in PyImages,
          template_list \in SeqsUpTo(PyTemplateEntries, MaxTemplates),
          threshold_list \in SeqsUpTo(PyThresholds, MaxTemplates) :
         /\ inp = [image_array |-> image_array, template_list |-> template_list,
                   threshold_list |-> threshold_list,
                   image |-> Mat(0, 0), templates |-> <<>>, thresholds |-> <<>>]
         /\ oracle = PyOracleFor(image_array, template_list, threshold_list)
    /\ pc = [IdlePc EXCEPT ![MainThread] = "py_start"]
    /\ lg = [th \in Threads |-> NoLog]
    /\ log_mutex = Free
    /\ log = <<>>
    /\ task = [t \in Matchers |-> NoTask]
    /\ res = [t \in Matchers |-> NoResult]
    /\ calls = [t \in Matchers |-> 0]
    /\ futures = <<>>
    /\ results = <<>>
    /\ ret = ""
    /\ hres = NoHealth
    /\ color = NoColor
    /\ ccalls = 0
    /\ gil = MainThread
    /\ pyerr = ""
    /\ bi = 0
    /\ bj = 0
    /\ exc = ""
    /\ iret = [i \in 1..MaxBatch |-> NoObject]

NextManyPy ==
    \/ cpp_multi_template_match
    \/ multi_template_match
    \/ \E t \in Matchers : parallel_template_match(t)

SpecManyPy == InitManyPy /\ [][NextManyPy]_vars

\* ------------------------------------------------- the two fan-out callers
\* A call of detect_health_parallel or a call of multi_template_match, with
\* the tasks either of them starts.
InitFanOut == InitHealth \/ InitMany

NextFanOut == NextHealth \/ NextMany

SpecFanOut == InitFanOut /\ [][NextFanOut]_vars

\* ======================================================================
\* Properties
\* ======================================================================

\* Number of log lines thread th has written.
LinesBy(th) == Cardinality({i \in 1..Len(log) : log[i][1] = th})

\* Matcher t's image or template is empty, or its template exceeds the image
\* in rows or in cols.
DegenerateInput(t) ==
    \/ task[t].image.rows = 0 \/ task[t].image.cols = 0
    \/ task[t].templ.rows = 0 \/ task[t].templ.cols = 0
    \/ task[t].templ.rows > task[t].image.rows
    \/ task[t].templ.cols > task[t].image.cols

\* Matcher t has been started.
Started(t) == pc[t] # "idle"

\* Matcher t's primitives raise on its (non-degenerate) input.
PrimitiveFails(t) == ~DegenerateInput(t) /\ oracle[t].kind # "ok"

\* Matcher t's result is a normal one: taken from the primitives' output.
NormalResult(t) == ~DegenerateInput(t) /\ oracle[t].kind = "ok"

ZeroResult(r) ==
    /\ r.found = FALSE
    /\ r.max_val = 0
    /\ r.confidence = 0
    /\ r.max_loc = Origin

\* ---------------------------------------------------------------- C1
\* C1 as stated: every MatchResult a matcher returns, and every MatchResult
\* in the output of matchMany, has found true exactly when its confidence
\* (which equals max_val) is at least the task's threshold, for every
\* threshold, zero and negative ones included.
C1_FoundIffConfidenceAtLeastThreshold ==
    /\ \A t \in Matchers :
         pc[t] = "done" =>
            /\ res[t].confidence = res[t].max_val
            /\ res[t].found <=> (res[t].confidence >= task[t].threshold)
    /\ \A j \in 1..Len(results) :
         /\ results[j].confidence = results[j].max_val
         /\ results[j].found <=> (results[j].confidence >= inp.thresholds[j])

\* C1 amended: confidence equals max_val, and found is true exactly when the
\* result is a normal one (the correlation was computed) and its confidence
\* is at least the task's threshold; a degenerate-input or primitive-failure
\* result has found false and confidence 0 whatever the threshold, so found
\* coincides with confidence >= threshold for every threshold above zero.
C1_FoundIffNormalAndAtLeastThreshold ==
    /\ \A t \in Matchers :
         pc[t] = "done" =>
            /\ res[t].confidence = res[t].max_val
            /\ res[t].found <=> (NormalResult(t) /\ res[t].confidence >= task[t].threshold)
            /\ ~NormalResult(t) => ~res[t].found /\ res[t].confidence = 0
            /\ task[t].threshold > 0 =>
                 (res[t].found <=> (res[t].confidence >= task[t].threshold))
    /\ \A j \in 1..Len(results) :
         /\ results[j].confidence = results[j].max_val
         /\ results[j].found <=>
               (NormalResult(futures[j]) /\ results[j].confidence >= inp.thresholds[j])
         /\ inp.thresholds[j] > 0 =>
              (results[j].found <=> (results[j].confidence >= inp.thresholds[j]))

\* C1 witness: the output of matchMany holds a normal result found with its
\* confidence equal to a threshold of zero, and a not-found result.
C1_Witness ==
    /\ ret = "returned"
    /\ \E j \in 1..Len(results) :
         /\ results[j].found
         /\ results[j].confidence = inp.thresholds[j]
         /\ inp.thresholds[j] = 0
    /\ \E k \in 1..Len(results) : ~results[k].found

\* ---------------------------------------------------------------- C2
\* analyzeHealth has returned its HealthResult.
HealthReturned == ret = "returned" /\ pc[MainThread] = "done"

\* The returned health fraction is below b hundredths.
FractionBelow(b) == hres.health_percentage[1] * 100 < b * hres.health_percentage[2]

\* The call returned past lines 253-254: it took neither the empty-input
\* return nor a catch clause, each of which logs one line.
Derived == HealthReturned /\ LinesBy(MainThread) = 0

\* C2 as stated: on every path, the returned is_critical is true exactly
\* when the health fraction is strictly below health_threshold.
C2_CriticalIffBelowThreshold ==
    HealthReturned => (hres.is_critical <=> FractionBelow(inp.health_threshold))

\* C2 amended: when analyzeHealth returns through the derivation of lines
\* 253-254 (bar not found, region collapsed, normal analysis), is_critical is
\* true exactly when the fraction is strictly below health_threshold; on the
\* empty-input return and after a caught failure (a primitive or a task
\* launch raised) is_critical is false and the fraction 0, whatever the
\* threshold.
C2_CriticalIffBelowThresholdWhenDerived ==
    /\ Derived => (hres.is_critical <=> FractionBelow(inp.health_threshold))
    /\ (HealthReturned /\ ~Derived) =>
          ~hres.is_critical /\ hres.health_percentage[1] = 0

\* C2 witness: a normal analysis returned a fraction of one half with
\* health_threshold one half, is_critical false.
C2_Witness ==
    /\ Derived
    /\ hres.health_bar_found
    /\ hres.health_percentage = <<1, 2>>
    /\ inp.health_threshold = 50
    /\ ~hres.is_critical

\* ---------------------------------------------------------------- C3
\* The empty-bar template matched (found at threshold 0.8).
EmptyTemplateMatched == Len(results) >= 2 /\ results[2].found

\* C3 as stated: on every path, the returned is_empty is true exactly when
\* the empty-bar template matched or the fraction is below 0.05.
C3_EmptyIffMatchedOrBelowFloor ==
    HealthReturned => (hres.is_empty <=> (EmptyTemplateMatched \/ FractionBelow(5)))

\* C3 amended: when analyzeHealth returns through the derivation of lines
\* 253-254, is_empty is true exactly when the empty-bar template matched or
\* the fraction is below 0.05; on the empty-input return and after a caught
\* failure is_empty is false although the fraction is 0.
C3_EmptyIffMatchedOrBelowFloorWhenDerived ==
    /\ Derived => (hres.is_empty <=> (EmptyTemplateMatched \/ FractionBelow(5)))
    /\ (HealthReturned /\ ~Derived) =>
          ~hres.is_empty /\ hres.health_percentage[1] = 0

\* C3 witness: the bar was found, its region holds no red pixel, the
\* empty-bar template did not match, and is_empty is true.
C3_Witness ==
    /\ Derived
    /\ hres.health_bar_found
    /\ ccalls = 1
    /\ hres.health_percentage[1] = 0
    /\ ~EmptyTemplateMatched
    /\ hres.is_empty

\* ---------------------------------------------------------------- C4
\* C4 as stated: whenever the returned health_bar_found is false, the
\* returned health_location is the origin.
C4_LocationIsOriginUnlessBarFound ==
    (HealthReturned /\ ~hres.health_bar_found) => hres.health_location = Origin

\* ---------------------------------------------------------------- C5
\* C5 as stated: when a colour primitive raised after the bar was found,
\* the returned result has fraction 0, health_bar_found false and
\* health_location (0,0).
C5_ZeroResultOnPrimitiveFailure ==
    (HealthReturned /\ Len(results) = 2 /\ results[1].found
        /\ ccalls = 1 /\ color.kind # "ok") =>
       /\ hres.health_percentage[1] = 0
       /\ hres.health_bar_found = FALSE
       /\ hres.health_location = Origin

\* ---------------------------------------------------------------- C6
\* C6 as stated: every element of the list processBatch returns is a
\* summary record, never None, and the list is no longer than the input.
C6_EveryElementIsASummary ==
    (pc[MainThread] = "done" /\ ret = "returned") =>
        /\ \A j \in 1..Len(results) : results[j].py = "dict"
        /\ Len(results) <= Len(inp.screenshot_list)

\* ---------------------------------------------------------------- C7
\* C7 as stated: when both templates convert, so that nothing but a list
\* item can fail to convert, and no thread launch of the dispatch loop
\* failed, processBatch returns its list and sets no error.
C7_ItemFailureDoesNotFailTheCall ==
    (/\ pc[MainThread] = "done"
     /\ pyarray_to_mat_what(inp.health_template) = ""
     /\ pyarray_to_mat_what(inp.respawn_template) = ""
     /\ exc # "Resource temporarily unavailable") =>
        /\ ret = "returned"
        /\ pyerr = ""

\* ---------------------------------------------------------------- C8
\* C8 as stated: a call of matchOne that ends without a primitive failure,
\* the degenerate-input outcomes included, has written no log line.
C8_LogOnlyOnPrimitiveFailure ==
    \A t \in Matchers :
        (pc[t] = "done" /\ ~PrimitiveFails(t)) => LinesBy(t) = 0

\* C8 amended: matchOne writes no line while it handles a normal call, and
\* exactly one line by the time it returns from a call whose primitive raised
\* or whose input is degenerate (empty image or template, template larger
\* than the image); it never writes more than one.
C8_LogOnFailureOrDegenerateInput ==
    \A t \in Matchers :
        /\ LinesBy(t) <= 1
        /\ (Started(t) /\ NormalResult(t)) => LinesBy(t) = 0
        /\ (pc[t] = "done" /\ ~NormalResult(t)) => LinesBy(t) = 1

\* C8 witness: a normal call returned with the log empty.
C8_Witness ==
    /\ pc[1] = "done"
    /\ NormalResult(1)
    /\ calls[1] = 1
    /\ log = <<>>

\* ---------------------------------------------------------------- C9
\* C9: when the image or the template is empty, or the template exceeds the
\* image in rows or cols, matchOne returns found = false, max_val = 0,
\* confidence = 0, max_loc = (0,0), and cv::matchTemplate is not invoked at
\* any point of the call.
C9_DegenerateInputNoCorrelation ==
    \A t \in Matchers :
        (Started(t) /\ DegenerateInput(t)) =>
            /\ calls[t] = 0
            /\ pc[t] = "done" => ZeroResult(res[t])

\* C9 witness: a call with a non-empty template wider than the non-empty
\* image has returned.
C9_Witness ==
    /\ pc[1] = "done"
    /\ task[1].image.rows > 0 /\ task[1].image.cols > 0
    /\ task[1].templ.rows > 0
    /\ task[1].templ.rows <= task[1].image.rows
    /\ task[1].templ.cols > task[1].image.cols
    /\ calls[1] = 0
    /\ ZeroResult(res[1])

\* ---------------------------------------------------------------- C10
\* C10: matchOne always ends by returning (a call that can take no further
\* step has returned), and when cv::matchTemplate or cv::minMaxLoc raised,
\* the returned result is found = false, max_val = 0, confidence = 0,
\* max_loc = (0,0) with the caller's template_id, and the call has written
\* exactly one log line.
C10_AlwaysReturnsZeroResultOnFailure ==
    \A t \in Matchers :
        /\ (Started(t) /\ ~ENABLED parallel_template_match(t)) => pc[t] = "done"
        /\ (pc[t] = "done" /\ calls[t] = 1 /\ oracle[t].kind # "ok") =>
              /\ ZeroResult(res[t])
              /\ res[t].template_id = task[t].template_id
              /\ LinesBy(t) = 1

\* C10 witness: a call whose cv::minMaxLoc raised has returned, with the
\* caller's template_id 1.
C10_Witness ==
    /\ pc[1] = "done"
    /\ calls[1] = 1
    /\ oracle[1].kind = "minMaxLoc_raise"
    /\ task[1].template_id = 1
    /\ res[1].template_id = 1
    /\ LinesBy(1) = 1

\* ---------------------------------------------------------------- C11
\* The j-th (template, threshold) pair of the matchMany input is degenerate:
\* the image or the template is empty, or the template exceeds the image.
PairDegenerate(j) ==
    \/ inp.image.rows = 0 \/ inp.image.cols = 0
    \/ inp.templates[j].rows = 0 \/ inp.templates[j].cols = 0
    \/ inp.templates[j].rows > inp.image.rows
    \/ inp.templates[j].cols > inp.image.cols

\* The primitives raise on the j-th pair.
PairFails(j) == ~PairDegenerate(j) /\ oracle[j].kind # "ok"

\* r is what matching the j-th pair alone yields, with template_id j - 1
\* (processing_time_ms aside).
IsMatchOfPair(r, j) ==
    /\ r.template_id = j - 1
    /\ r.confidence = r.max_val
    /\ IF PairDegenerate(j) \/ PairFails(j)
         THEN r.max_val = 0 /\ r.max_loc = Origin /\ r.found = FALSE
         ELSE /\ r.max_val = oracle[j].val
              /\ r.max_loc = oracle[j].loc
              /\ r.found <=> (oracle[j].val >= inp.thresholds[j])

\* C11: matchMany returns its results in submission order whatever the
\* order in which the tasks complete: the element at every output position
\* is the result of matching the pair submitted at that position and
\* carries that position (from zero) as its template_id.
C11_ResultsInSubmissionOrder ==
    /\ \A j \in 1..Len(results) : IsMatchOfPair(results[j], j)
    /\ (ret = "returned" /\ Len(inp.templates) = Len(inp.thresholds)) =>
          Len(results) = Len(inp.templates)

\* C11 witness: two tasks were submitted, the second completed (wrote its
\* log line and returned) before the first, and the output holds the first
\* task's result at position one and the second's at position two.
C11_Witness ==
    /\ ret = "returned"
    /\ Len(results) = 2
    /\ Len(log) = 2
    /\ log[1][1] = 2
    /\ log[2][1] = 1
    /\ results[1].template_id = 0
    /\ results[2].template_id = 1

\* ---------------------------------------------------------------- C12
\* C12: when the primitives raise in one task of a matchMany fan-out, a
\* failure result (found = false, confidence = 0) stands at exactly that
\* task's output position, every sibling has run to completion and its
\* result stands unchanged at its own position, and the output is as long
\* as the input; a task's failure never ends the call by an exception.
C12_FailedTaskKeepsItsPosition ==
    /\ (ret = "returned" /\ Len(inp.templates) = Len(inp.thresholds)) =>
          /\ Len(results) = Len(inp.templates)
          /\ \A j \in 1..Len(inp.templates) :
                /\ pc[j] = "done"
                /\ PairFails(j) =>
                     /\ calls[j] = 1
                     /\ results[j].found = FALSE
                     /\ results[j].confidence = 0
                /\ ~PairFails(j) => IsMatchOfPair(results[j], j)
    /\ pc[MainThread] = "done" => \A j \in 1..Len(futures) : pc[futures[j]] = "done"
    /\ ret = "exception" => Len(futures) < Len(inp.templates)

\* C12 witness: the first of two tasks failed in its primitives, the second
\* found its template; the output has both, the failure result first.
C12_Witness ==
    /\ ret = "returned"
    /\ Len(results) = 2
    /\ PairFails(1)
    /\ calls[1] = 1
    /\ ~results[1].found
    /\ results[1].confidence = 0
    /\ results[2].found
    /\ results[2].confidence = 100

\* ---------------------------------------------------------------- C13
\* The two lists handed to cpp_multi_template_match differ in length.
ListsMismatch == Len(inp.template_list) # Len(inp.threshold_list)

\* C13: a matchMany call whose template list and threshold list differ in
\* length never starts a matching task nor invokes the correlation
\* primitive, always comes to its end, and ends by reporting an error to
\* the caller, with no result list.
C13_MismatchReportsErrorAndMatchesNothing ==
    ListsMismatch =>
        /\ \A t \in Matchers : pc[t] = "idle" /\ calls[t] = 0
        /\ futures = <<>>
        /\ pc[MainThread] # "done" => ENABLED NextManyPy
        /\ pc[MainThread] = "done" =>
              /\ ret = "error"
              /\ pyerr \in {"ValueError", "RuntimeError"}
              /\ results = <<>>

\* C13 witness: a call with two templates that convert and one threshold
\* has ended with ValueError.
C13_Witness ==
    /\ Len(inp.template_list) = 2
    /\ Len(inp.threshold_list) = 1
    /\ \A i \in 1..2 : inp.template_list[i] = ArrayTemplate(i - 1)
    /\ inp.image_array = ArrayGray
    /\ pc[MainThread] = "done"
    /\ ret = "error"
    /\ pyerr = "ValueError"

\* ---------------------------------------------------------------- C14
\* List entry e is an image: an array of two or three dimensions whose
\* channel count is 1, 3 or 4.
EntryIsImage(e) ==
    /\ e.py = "ndarray"
    /\ e.ndim \in {2, 3}
    /\ e.ndim = 3 => e.ch \in {1, 3, 4}

\* Number of structurally valid (template, threshold) pairs in the input.
NumValid == Cardinality({i \in 1..Len(inp.template_list) : EntryIsImage(inp.template_list[i])})

\* List index of the k-th valid pair.
KthValid(k) ==
    CHOOSE i \in 1..Len(inp.template_list) :
        /\ EntryIsImage(inp.template_list[i])
        /\ Cardinality({m \in 1..i : EntryIsImage(inp.template_list[m])}) = k

\* The call ran out of a resource: a thread could not be started, or the
\* result objects could not be allocated.
OutOfResources == pyerr = "MemoryError" \/ Len(futures) < Len(inp.templates)

\* C14 as stated: for lists of equal length (and an image that converts),
\* the call returns a list with one result per structurally valid
\* (template, threshold) pair, for every number of such pairs, zero
\* included; the invalid entries are passed over with their thresholds and
\* the k-th result is the match of the k-th valid pair.
C14_OutputIsOnePerValidPair ==
    (/\ pc[MainThread] = "done"
     /\ ~ListsMismatch
     /\ EntryIsImage(inp.image_array)
     /\ ~OutOfResources) =>
        /\ ret = "returned"
        /\ pyerr = ""
        /\ Len(results) = NumValid
        /\ \A k \in 1..NumValid :
              LET i == KthValid(k)
                  val == IF inp.template_list[i].scene = 0 THEN 70 ELSE 100
              IN /\ results[k].template_id = k - 1
                 /\ results[k].confidence = val
                 /\ results[k].found <=> (val >= inp.threshold_list[i])

\* ---------------------------------------------------------------- C15
\* Number of valid images in the screenshot list, and the list index of the
\* k-th of them.
NumImages ==
    Cardinality({i \in 1..Len(inp.screenshot_list) : EntryIsImage(inp.screenshot_list[i])})

KthImage(k) ==
    CHOOSE i \in 1..Len(inp.screenshot_list) :
        /\ EntryIsImage(inp.screenshot_list[i])
        /\ Cardinality({m \in 1..i : EntryIsImage(inp.screenshot_list[m])}) = k

\* What two independent matchOne calls return for a screenshot of a scene:
\* the health template at threshold 0.7 and the respawn template at 0.8.
\* In scene 0 both templates score 0.7; in the other scene the health
\* template scores 0.6 and the respawn template 0.8.
IndependentSummary(scene) ==
    LET hc == IF scene = 0 THEN 70 ELSE 60
        rc == IF scene = 0 THEN 70 ELSE 80
    IN [py |-> "dict", health_found |-> hc >= 70, health_confidence |-> hc,
        respawn_found |-> rc >= 80, respawn_confidence |-> rc]

\* No per-image task failed: none returned None or NULL.
NoItemFailed == \A i \in 1..MaxBatch : iret[i].py \notin {"None", "NULL"}

\* C15: when no item fails, processBatch returns exactly one summary per
\* valid image of the list, in list order, and every summary equals what
\* independent matchOne calls return for that image with the health
\* template at 0.7 and the respawn template at 0.8, in every order of
\* completion of the sub-matches and of the per-image tasks.
C15_BatchRefinesIndependentMatches ==
    /\ NoItemFailed =>
          \A k \in 1..Len(results) :
              /\ k <= NumImages
              /\ results[k] = IndependentSummary(inp.screenshot_list[KthImage(k)].scene)
    /\ (ret = "returned" /\ NoItemFailed) => Len(results) = NumImages

\* C15 witness: a batch of two screenshots of different scenes has returned
\* their two summaries in list order.
C15_Witness ==
    /\ ret = "returned"
    /\ inp.screenshot_list = <<ArrayBGR(1), ArrayBGR(0)>>
    /\ results = <<IndependentSummary(1), IndependentSummary(0)>>
    /\ IndependentSummary(1) # IndependentSummary(0)

\* ---------------------------------------------------------------- C16
\* processBatch has come to its end: the call has returned or reported its
\* error, and every task that was started has finished.
BatchOver ==
    /\ pc[MainThread] = "done"
    /\ \A th \in Matchers \cup ItemThreads : pc[th] \in {"idle", "done"}

\* C16: under fair scheduling processBatch terminates on every list: the
\* call comes to its end with every started per-image task and sub-match
\* finished; and in no reachable state before the end of the call are the
\* dispatching thread and the tasks all blocked.
C16_BatchTerminates ==
    /\ [](pc[MainThread] # "done" => ENABLED NextBatch)
    /\ <>[]BatchOver

\* C16 witness: a batch of two screenshots has returned both summaries with
\* its two per-image tasks and four sub-matches finished.
C16_Witness ==
    /\ BatchOver
    /\ ret = "returned"
    /\ Len(results) = 2
    /\ \A i \in 1..2 : pc[ItemThread(i)] = "done"
    /\ \A t \in 1..4 : pc[t] = "done" /\ calls[t] = 1

\* ---------------------------------------------------------------- C17
\* Threads inside the write section of thread_safe_log (lines 21-28).
Writers == {th \in Threads : pc[th] = "log_write"}

\* C17: at most one thread is inside the write section of the log at any
\* time, and log_mutex is held exactly by the thread that is inside it: not
\* by a thread whose correlation is under way, nor by one that waits for a
\* future.
C17_OneWriterAndLockOnlyWhileWriting ==
    /\ Cardinality(Writers) <= 1
    /\ \A th \in Threads : (log_mutex = th) <=> (th \in Writers)
    /\ log_mutex \in Threads \cup {Free}
    /\ \A t \in Matchers : pc[t] \in {"pm_start", "pm_match", "pm_time"} => log_mutex # t
    /\ pc[MainThread] \in {"mm_launch", "mm_collect", "mm_unwind"} => log_mutex # MainThread

\* C17 witness: two tasks of one matchMany log at the same time; the first
\* is inside the write section and the second waits for log_mutex.
C17_Witness ==
    /\ pc[1] = "log_write"
    /\ log_mutex = 1
    /\ pc[2] = "log_lock"
    /\ pc[MainThread] = "mm_collect"

\* ---------------------------------------------------------------- C18
\* The call under way is one of analyzeHealth.
HealthCall == "screenshot" \in DOMAIN inp

\* What one match of templ in image with a threshold yields on its own,
\* given what the primitives do for the pair (processing_time_ms aside).
MatchAlone(image, templ, threshold, o) ==
    IF \/ image.rows = 0 \/ image.cols = 0 \/ templ.rows = 0 \/ templ.cols = 0
       \/ templ.rows > image.rows \/ templ.cols > image.cols
       \/ o.kind # "ok"
      THEN [max_val |-> 0, max_loc |-> Origin, confidence |-> 0, found |-> FALSE]
      ELSE [max_val |-> o.val, max_loc |-> o.loc, confidence |-> o.val,
            found |-> o.val >= threshold]

\* r has the fields of m.
SameMatch(r, m) ==
    /\ r.max_val = m.max_val
    /\ r.max_loc = m.max_loc
    /\ r.confidence = m.confidence
    /\ r.found = m.found

\* The HealthResult fixed by the inputs and by what the primitives do for
\* them, computed with no concurrency (processing_time_ms aside).
HealthAlone ==
    LET bar == MatchAlone(inp.screenshot, inp.health_bar_template, 70, oracle[1])
        emp == MatchAlone(inp.screenshot, inp.empty_health_template, 80, oracle[2])
        roi == ClipRoi(bar.max_loc, inp.health_bar_template, inp.screenshot)
        analysed == bar.found /\ roi.width > 0 /\ roi.height > 0
        raises == analysed /\ (~RoiInside(roi, inp.screenshot) \/ color.kind # "ok")
        hp == IF analysed /\ ~raises
                THEN <<RedPixels(roi), roi.height * roi.width>> ELSE Zero
    IN IF \/ inp.screenshot.rows = 0 \/ inp.screenshot.cols = 0
          \/ inp.health_bar_template.rows = 0 \/ inp.health_bar_template.cols = 0
          \/ inp.empty_health_template.rows = 0 \/ inp.empty_health_template.cols = 0
         THEN [NoHealth EXCEPT !.processing_time_ms = 0]
         ELSE [health_percentage |-> hp,
               is_empty |-> ~raises /\ IsEmpty(emp.found, hp),
               is_critical |-> ~raises /\ IsCritical(hp, inp.health_threshold),
               processing_time_ms |-> 0,
               health_location |-> bar.max_loc,
               health_bar_found |-> bar.found]

\* std::async could not start a sub-match of analyzeHealth: the handler of
\* line 258 logged it.
LaunchFailed ==
    \E k \in 1..Len(log) : log[k] = <<MainThread, "Error in health detection">>

\* C18: for fixed inputs and fixed behaviour of the primitives, whatever
\* the interleaving and the order of completion of the sub-matches: every
\* sub-match returns what it yields on its own, the HealthResult of
\* analyzeHealth (when its sub-matches could be started) is the one the inputs
\* fix, and so is every element of the result list of matchMany, all
\* fields but the elapsed time.
C18_ResultsIndependentOfInterleaving ==
    /\ \A t \in Matchers :
          pc[t] = "done" =>
             /\ SameMatch(res[t], MatchAlone(task[t].image, task[t].templ,
                                              task[t].threshold, oracle[t]))
             /\ res[t].template_id = task[t].template_id
    /\ (HealthCall /\ pc[MainThread] = "done" /\ ~LaunchFailed) =>
          [hres EXCEPT !.processing_time_ms = 0] = HealthAlone
    /\ ~HealthCall =>
          \A j \in 1..Len(results) :
              /\ SameMatch(results[j], MatchAlone(inp.image, inp.templates[j],
                                                  inp.thresholds[j], oracle[j]))
              /\ results[j].template_id = j - 1

\* C18 witness: an analyzeHealth call whose two sub-matches differ (the bar
\* found off the origin, the empty-bar template not found) has returned a
\* fraction of one half.
C18_Witness ==
    /\ HealthCall
    /\ pc[MainThread] = "done"
    /\ Len(results) = 2
    /\ results[1].found
    /\ results[1].max_loc # Origin
    /\ ~results[2].found
    /\ hres.health_bar_found
    /\ hres.health_percentage = <<1, 2>>

\* ---------------------------------------------------------------- C19
\* Width and height of the region at the bar match's location after the
\* clipping of the specification: x = max(0, x), y = max(0, y),
\* width = min(width, imageWidth - x), height = min(height, imageHeight - y).
ClippedWidth ==
    LET x == IF results[1].max_loc[1] < 0 THEN 0 ELSE results[1].max_loc[1]
        room == inp.screenshot.cols - x
    IN IF inp.health_bar_template.cols < room THEN inp.health_bar_template.cols ELSE room

ClippedHeight ==
    LET y == IF results[1].max_loc[2] < 0 THEN 0 ELSE results[1].max_loc[2]
        room == inp.screenshot.rows - y
    IN IF inp.health_bar_template.rows < room THEN inp.health_bar_template.rows ELSE room

\* Colour analysis is to be skipped: the bar was not found, or the clipped
\* region has non-positive width or height.
AnalysisSkipped ==
    /\ Len(results) = 2
    /\ ~results[1].found \/ ClippedWidth <= 0 \/ ClippedHeight <= 0

\* C19: the health fraction of every HealthResult lies in [0,1]; and when
\* the bar is not found, or the clipped region has non-positive width or
\* height, the returned fraction is 0, no colour primitive was invoked and
\* nothing was raised (no handler ran, so the caller logged nothing).
C19_FractionInUnitIntervalAndZeroWhenSkipped ==
    /\ hres.health_percentage[2] > 0
    /\ 0 <= hres.health_percentage[1]
    /\ hres.health_percentage[1] <= hres.health_percentage[2]
    /\ (AnalysisSkipped /\ pc[MainThread] \in {"dh_time", "done"}) =>
          /\ hres.health_percentage[1] = 0
          /\ ccalls = 0
          /\ LinesBy(MainThread) = 0
          /\ lg[MainThread] = NoLog

\* C19 witness: the bar was found at a position right of the image, so the
\* clipped width is not positive; the call returned fraction 0, bar found,
\* without a colour primitive.
C19_Witness ==
    /\ HealthReturned
    /\ Len(results) = 2
    /\ results[1].found
    /\ results[1].max_loc[1] >= inp.screenshot.cols
    /\ ClippedWidth <= 0
    /\ hres.health_bar_found
    /\ hres.health_percentage = Zero
    /\ ccalls = 0

\* ---------------------------------------------------------------- C20
\* C20 as stated: every MatchResult matchOne returns, on every return path,
\* has processing_time_ms set to the duration measured for the call, a
\* value that is not negative.
C20_ElapsedAlwaysSet ==
    \A t \in Matchers :
        pc[t] = "done" =>
            /\ res[t].processing_time_ms = oracle[t].ms
            /\ res[t].processing_time_ms >= 0

\* ---------------------------------------------------------------- C21
\* health_roi as lines 215-221 leave it, for the bar match that was read.
HealthRoi == ClipRoi(results[1].max_loc, inp.health_bar_template, inp.screenshot)

\* Line 224 and what follows has been passed or skipped.
PastAnalysis == Len(results) = 2 /\ pc[MainThread] # "dh_analyze"

\* The conditions of lines 210 and 223 let the colour analysis in.
AnalysisEntered ==
    /\ PastAnalysis
    /\ results[1].found
    /\ HealthRoi.width > 0
    /\ HealthRoi.height > 0

\* C21: for every match location (in the image or up to one row or column
\* outside it), template size and image size, whenever the colour analysis
\* is entered the clipped region is a non-empty rectangle inside the image
\* (0 <= x, 0 <= y, width > 0, height > 0, x + width <= imageWidth,
\* y + height <= imageHeight), it has the width and height the clipping
\* rule gives, extracting it from the screenshot raises nothing and the
\* colour primitives run once on it; otherwise they do not run at all.
C21_ClippedRegionInsideImageOrSkipped ==
    /\ AnalysisEntered =>
          /\ 0 <= HealthRoi.x
          /\ 0 <= HealthRoi.y
          /\ HealthRoi.width > 0
          /\ HealthRoi.height > 0
          /\ HealthRoi.x + HealthRoi.width <= inp.screenshot.cols
          /\ HealthRoi.y + HealthRoi.height <= inp.screenshot.rows
          /\ HealthRoi.width = ClippedWidth
          /\ HealthRoi.height = ClippedHeight
          /\ ccalls = 1
          /\ color.kind = "ok" => LinesBy(MainThread) = 0 /\ lg[MainThread] = NoLog
    /\ ~AnalysisEntered => ccalls = 0

\* C21 witness: the bar was found one column left of the last one with a
\* template two or more columns wide, so the region was clipped to fewer
\* columns than the template has, and the colour analysis ran on it.
C21_Witness ==
    /\ HealthReturned
    /\ AnalysisEntered
    /\ results[1].max_loc[1] > 0
    /\ HealthRoi.width < inp.health_bar_template.cols
    /\ ccalls = 1
    /\ hres.health_percentage[2] = HealthRoi.width * HealthRoi.height


\* ---------------------------------------------------------------- C22
\* A thread that was started and has not returned: it is still running,
\* and may still read the image and the template of its task.
Running(th) == pc[th] \notin {"idle", "done"}

\* The sub-tasks of the per-image task of list index i.
SubTasks(i) == {HealthMatcher(i), RespawnMatcher(i)}

\* C22: once matchMany or analyzeHealth has returned, by a return or by an
\* exception of a launch, none of the tasks it started is still running (so
\* none still reads the image or a template it was handed by reference) and
\* none holds the log lock; once a per-image task of processBatch has
\* returned, with a summary, with None or with a null pointer, neither of
\* its two sub-tasks is still running; and once processBatch has returned
\* no per-image task is.
C22_ReturnsOnlyAfterSubTasksFinished ==
    /\ pc[MainThread] = "done" =>
          /\ \A th \in Threads \ {MainThread} : ~Running(th)
          /\ log_mutex = Free
    /\ \A i \in 1..MaxBatch :
          pc[ItemThread(i)] = "done" => \A t \in SubTasks(i) : ~Running(t)

\* C22 witness: matchMany started a task, which went as far as the
\* correlation primitive, and then failed to start the next one; the
\* exception left the call only after the started task had returned.
C22_Witness ==
    /\ "templates" \in DOMAIN inp
    /\ pc[MainThread] = "done"
    /\ ret = "exception"
    /\ Len(futures) >= 1
    /\ Len(futures) < Len(inp.templates)
    /\ calls[futures[1]] = 1
    /\ pc[futures[1]] = "done"


\* ---------------------------------------------------------------- C23
\* A step of the calling thread that operates on a Python object: it reads
\* a list item (lines 458-461), appends to the output list (line 507), or
\* sets the error and drops the output list (lines 524-525).
MainTouchesHost ==
    \/ pc[MainThread] = "pb_item" /\ pc'[MainThread] # "pb_item"
    \/ pc[MainThread] = "pb_append" /\ pc'[MainThread] # "pb_append"
    \/ pyerr' # pyerr

\* A step of the per-image task of list index i that operates on a Python
\* object: it builds the summary dict and its values (lines 479-484), or
\* hands back the None object (line 491).
ItemTouchesHost(i) == iret'[i] # iret[i]

\* The operations of the calling thread are done under the interpreter lock.
MainHoldsLockWhenTouching == [][MainTouchesHost => gil = MainThread]_vars

\* C23 as stated: during processBatch every operation on a Python object
\* (reading a list item, building a summary and its values, producing None,
\* appending to the output list) is a step of a thread that holds the
\* interpreter lock at that moment, so that no two threads are at such an
\* operation at the same time.
C23_HostObjectsOnlyUnderLock ==
    /\ [][MainTouchesHost => gil = MainThread]_vars
    /\ [][\A i \in 1..MaxBatch : ItemTouchesHost(i) => gil = ItemThread(i)]_vars
    /\ [](\A i, j \in 1..MaxBatch :
             (i # j /\ pc[ItemThread(i)] = "it_dict") => pc[ItemThread(j)] # "it_dict")

====
